---- MODULE Spec2Model ----
(***************************************************************************)
(* Session bridging engine of the Discord bridge: one Discord thread, the  *)
(* user messages posted into it, and for every message the submission      *)
(* (handleOpencodeSession) with its two concurrent flows: the main flow    *)
(* (resolve session, supersede, subscribe, prompt, reaction) and the event *)
(* consumer (eventHandler).  Every await at which another handler can run  *)
(* is a separate step.  Discord sends are taken to succeed.                *)
(***************************************************************************)
EXTENDS Integers, Sequences, FiniteSets, TLC

\* ---- bounds of the model ----
NumMsgs == 2          \* user messages posted into the thread
PartsPerMsg == 1      \* content parts of one assistant message
MaxSessions == 2      \* Agent sessions that can be created
MaxUserAborts == 1    \* /abort commands issued
MaxPerms == 1         \* distinct permission ids
MaxCmds == 2          \* /accept, /accept-always, /reject commands issued
MaxCmdPerms == 2      \* permission ids while commands are issued
MaxCalls == 6         \* calls of initializeOpencodeForDirectory for the directory
MaxClientCalls == 2   \* of them, calls made by the handlers
NumGuilds == 2        \* guilds with a voice channel
MaxSignals == 2       \* signals delivered to the bridge
MaxInsts == 3         \* bridge processes started
MaxTokens == 3        \* tokens of a markdown text
MaxConnections == 3   \* voice connections made in the guild
MaxCleanups == 2      \* cleanups awaiting the stop of one worker
MaxChunks == 3        \* chunks written to the framer
MaxTimers == 2        \* pending timers that restart typing
MaxTypings == 2       \* sendTyping calls of a typing interval

\* exit code of the bridge that the wrapper does not answer with a restart
EXIT_NO_RESTART == 64

\* restarts before the supervisor gives up
MaxRetries == 5

Msgs == 1..NumMsgs
Sessions == 1..MaxSessions
PermIds == 1..MaxPerms
Cmds == 1..MaxCmds
NoMsg == 0
NoSession == 0
NoPerm == 0

\* A part id: <<assistant message, index>>.  The assistant message that
\* answers user message r is identified with r.
PartIds == Msgs \X (1..PartsPerMsg)

\* Part.type of the parts of the stream
PartKinds == {"text", "tool", "reasoning", "step-finish"}

VARIABLES
  threadRow,          \* thread_sessions row of the thread (NoSession: absent)
  partMessages,       \* part ids with a part_messages row of the thread
  nextSession,        \* number of sessions the Agent has created
  abortControllers,   \* session id -> submission whose controller is stored
  reason,             \* submission -> abort reason of its controller
  pendingPermissions, \* pending permission id of the thread
  main,               \* submission -> position of the main flow
  rowRead,            \* submission -> sessionId read from the row, while in use
  sess,               \* submission -> session.id
  cons,               \* submission -> position of eventHandler
  sentPartIds,        \* submission -> local set of sent part ids
  currentParts,       \* submission -> sequence of [id, body]
  assistantMessageId, \* submission -> tracked assistant message
  todo,               \* submission -> part ids still to send; head in flight
  permCur,            \* submission -> permission being announced
  partPosts,          \* part id -> number of Discord posts made of it
  reactions,          \* message -> the reaction on it (none, ok, err)
  userAborts,         \* number of /abort commands handled
  cmds,               \* resolution command -> [pc, perm, scope]
  agentReplies,       \* <<permission, scope>> the Agent was sent
  abortCmd,           \* the /abort handler: [pc, session]
  agentAborts,        \* sessions for which session.abort was called
  lastReplied,        \* permission of the last permission.replied handled
  opencodeServers,    \* call whose process the directory's entry holds
  serverRetryCount,   \* retry counter of the directory
  calls,              \* call of initializeOpencodeForDirectory -> [pc, origin, appId]
  proc,               \* call -> state of the process it spawned
  terminalError,      \* 'crashed too many times' was logged
  respawns,           \* respawns since the last clean exit
  shuttingDown,       \* global.shuttingDown
  voiceConnections,   \* guilds with a voice connection entry
  cleaning,           \* guilds whose cleanup handleShutdown awaits
  sigs,               \* signal handler run -> [sig, pc]
  db,                 \* the database handle is open
  destroyed,          \* discordClient.destroy() was called
  exited,             \* process.exit was called
  shutLog,            \* the steps of the shutdown taken, in order
  lockPort,           \* instance listening on the lock port
  inst,               \* bridge process -> [pc, code, signal]
  wrapper,            \* the restart wrapper: [pc, child]
  event,              \* the last gateway event handled, with its actor
  processed,          \* the handler went past its authorization check
  content,            \* tokens of the markdown handed to the splitter
  maxLength,          \* maxLength handed to the splitter
  chunks,             \* the chunks returned, each a sequence of pieces
  escaped,            \* <<escape(x), escape(escape(x))>> of the markdown escaped
  guildChannels,      \* the guild's channels: [id, directory, type]
  channelDirectories, \* rows of channel_directories, in insertion order
  nextChannelId,      \* number of channels Discord has created
  lastCommand,        \* the last project command: [name, directory, found]
  sessionMessages,    \* the messages of the session the Agent holds
  resumeReply,        \* the reply of /resume: none, not-found, resumed
  threadPosts,        \* the sendThreadMessage calls made in the resume thread
  resumePartMessages, \* part_messages rows of the resume thread: <<part, message>>
  speakingSessionCount, \* counter of the speaking sessions started
  pipelines,          \* speaking session -> [state, frames] of its pipeline
  realtimeInput,      \* what was sent to the realtime model: [kind, session]
  isAssistantSpeaking, \* the session's flag: audio of a turn has arrived
  turn,               \* number of assistant turns that have started speaking
  turnEnd,            \* how the last turn ended: none, complete, interrupted
  audioChunks,        \* audio chunks the model has sent
  opusPacketQueue,    \* the worker's queue of Opus packets, each with its turn
  workerOut,          \* messages posted by the worker, not yet handled
  workerIn,           \* interrupt messages posted to the worker, not yet handled
  speaking,           \* the speaking state of the voice connection
  played,             \* packets handed to the voice transport, each with its turn
  voiceEntry,         \* the connection whose entry voiceConnections holds for the guild
  connStatus,         \* connection -> state.status of the voice connection
  entryWorker,        \* connection -> its entry's genAiWorker is set
  workerStatus,       \* connection -> state of the worker created for it
  listening,          \* connection -> its Disconnected/Destroyed handlers are registered
  joinPc,             \* connection -> position of the join that created it
  awaitingStop,       \* connection -> cleanups awaiting stop() of its entry's worker
  workerFailed,       \* connections whose worker reported an error
  errorSent,          \* connections whose worker error was sent to a text channel
  stash,              \* the framer's stash: [from, len], the input bytes it holds
  offset,             \* the framer's offset into the stash
  frames,             \* the frames pushed: [from, len], the input bytes of each
  written,            \* number of input bytes written to the framer
  chunksWritten,      \* number of chunks written to the framer
  flushed,            \* the framer was flushed
  typingSignal,       \* abort reason of the submission's controller, "none": not aborted
  typingInterval,     \* the submission's typing interval is set
  stopTyping,         \* stopTyping holds a function
  restartTimers,      \* pending 300 ms timers that restart typing
  handlerPc,          \* position of the submission's eventHandler
  promptPc,           \* position of the submission's prompt call
  typingSent          \* sendTyping calls of the interval

dbVars == <<threadRow, partMessages>>
memVars == <<abortControllers, reason, pendingPermissions>>
mainVars == <<main, rowRead, sess>>
consVars == <<cons, sentPartIds, currentParts, assistantMessageId, todo, permCur>>
discordVars == <<partPosts, reactions>>
envVars == <<nextSession, userAborts>>

cmdVars == <<cmds, agentReplies, abortCmd, agentAborts, lastReplied>>

\* the Agent server supervisor of one directory
srvVars == <<opencodeServers, serverRetryCount, calls, proc, terminalError, respawns>>

\* the state of the session bridge
bridgeVars == <<dbVars, memVars, mainVars, consVars, discordVars, envVars>>

\* the state outside the session bridge
\* the shutdown of the bridge
shutVars == <<shuttingDown, voiceConnections, cleaning, sigs, db, destroyed,
              exited, shutLog>>

\* the single-instance lock and the restart wrapper
lockVars == <<lockPort, inst, wrapper>>

\* the authorization check of the event handlers
authVars == <<event, processed>>

\* the markdown functions
mdVars == <<content, maxLength, chunks, escaped>>

\* the state of the specifications further down
\* the project channels of the guild
chanVars == <<guildChannels, channelDirectories, nextChannelId, lastCommand>>

\* the /resume command
resumeVars == <<sessionMessages, resumeReply, threadPosts, resumePartMessages>>

\* the voice input of a guild
voiceInVars == <<speakingSessionCount, pipelines, realtimeInput>>

\* the voice output of a guild: the worker and the voice connection
voiceOutVars == <<isAssistantSpeaking, turn, turnEnd, audioChunks, opusPacketQueue,
                  workerOut, workerIn, speaking, played>>

\* the voice connection and the worker of a guild
workerVars == <<voiceEntry, connStatus, entryWorker, workerStatus, listening, joinPc,
                awaitingStop, workerFailed, errorSent>>

\* the state of the last specifications
\* the framer of the voice input
framerVars == <<stash, offset, frames, written, chunksWritten, flushed>>

\* the typing indicator of one submission
typingVars == <<typingSignal, typingInterval, stopTyping, restartTimers, handlerPc,
                promptPc, typingSent>>

\* the state of the specifications after the framer's
newVars == <<typingVars>>

lastVars == <<workerVars, framerVars, newVars>>

moreVars == <<mdVars, chanVars, resumeVars, voiceInVars, voiceOutVars, lastVars>>

\* the state of the specifications before the last ones
oldVars == <<bridgeVars, cmdVars, srvVars, shutVars, lockVars, authVars, mdVars,
             chanVars, resumeVars, voiceInVars, voiceOutVars>>

auxVars == <<srvVars, shutVars, lockVars, authVars, moreVars>>

sysVars == <<cmdVars, auxVars>>

vars == <<bridgeVars, sysVars>>

\* a resolution command that has not been issued, or has returned
NoCmd == [pc |-> "idle", perm |-> NoPerm, scope |-> "none"]

\* the /abort handler before the command
NoAbortCmd == [pc |-> "idle", session |-> NoSession]

\* calls of initializeOpencodeForDirectory for the directory; a call that
\* does not reuse the entry spawns one process, named after the call
Calls == 1..MaxCalls

NoCall == 0

\* a call that has not been made
NoInit == [pc |-> "idle", origin |-> "none", appId |-> FALSE]

\* exit codes of the Agent server process: clean, not clean
ExitCodes == {0, 1}

Guilds == 1..NumGuilds

\* the signals with a handler, and the deliveries of them
Signals == {"SIGTERM", "SIGINT", "SIGUSR2"}

SigRuns == 1..MaxSignals

\* a delivery that has not happened
NoSig == [sig |-> "none", pc |-> "idle"]

\* the bridge processes started, by hand or by the wrapper
Insts == 1..MaxInsts

NoInst == 0

\* a process that has not been started
NoProcess == [pc |-> "none", code |-> 0, signal |-> "none"]

\* how a bridge process can end by itself or from outside: the exit codes it
\* uses, and the signals that kill it
StopCodes == {0, 1, EXIT_NO_RESTART}

StopSignals == {"none", "SIGINT", "SIGTERM", "SIGKILL"}

\* names of the roles of a guild
RoleNames == {"remote-vibe", "Remote-Vibe", "REMOTE-VIBE", "remote_vibe", "admins"}

\* the events of the gateway with what the handlers read of them: the actor
\* is a bot, the member object is there, the actor is the guild's owner,
\* has Administrator, has ManageGuild, the names of its roles; a partial
\* message is fetched first
GatewayEvents ==
  [kind : {"message", "voice"}, bot : BOOLEAN, member : BOOLEAN,
   owner : BOOLEAN, admin : BOOLEAN, manage : BOOLEAN,
   roles : SUBSET RoleNames, partial : {"no", "fetched", "failed"}]

\* no event handled yet
NoEvent ==
  [kind |-> "none", bot |-> FALSE, member |-> FALSE, owner |-> FALSE,
   admin |-> FALSE, manage |-> FALSE, roles |-> {}, partial |-> "no"]

\* the state at start but for the thread's row and the Agent's sessions
InitRest ==
  /\ partMessages = {}
  /\ abortControllers = [s \in Sessions |-> NoMsg]
  /\ reason = [m \in Msgs |-> "none"]
  /\ pendingPermissions = NoPerm
  /\ main = [m \in Msgs |-> "new"]
  /\ rowRead = [m \in Msgs |-> NoSession]
  /\ sess = [m \in Msgs |-> NoSession]
  /\ cons = [m \in Msgs |-> "none"]
  /\ sentPartIds = [m \in Msgs |-> {}]
  /\ currentParts = [m \in Msgs |-> <<>>]
  /\ assistantMessageId = [m \in Msgs |-> NoMsg]
  /\ todo = [m \in Msgs |-> <<>>]
  /\ permCur = [m \in Msgs |-> NoPerm]
  /\ partPosts = [p \in PartIds |-> 0]
  /\ reactions = [m \in Msgs |-> "none"]
  /\ userAborts = 0
  /\ cmds = [c \in Cmds |-> NoCmd]
  /\ agentReplies = {}
  /\ abortCmd = NoAbortCmd
  /\ agentAborts = {}
  /\ lastReplied = NoPerm
  /\ opencodeServers = NoCall
  /\ serverRetryCount = 0
  /\ calls = [c \in Calls |-> NoInit]
  /\ proc = [c \in Calls |-> "none"]
  /\ terminalError = FALSE
  /\ respawns = 0
  /\ shuttingDown = FALSE
  /\ voiceConnections = {}
  /\ cleaning = {}
  /\ sigs = [h \in SigRuns |-> NoSig]
  /\ db = FALSE
  /\ destroyed = FALSE
  /\ exited = FALSE
  /\ shutLog = <<>>
  /\ lockPort = NoInst
  /\ inst = [i \in Insts |-> NoProcess]
  /\ wrapper = [pc |-> "off", child |-> NoInst]
  /\ event = NoEvent
  /\ processed = FALSE
  /\ content = <<>>
  /\ maxLength = 0
  /\ chunks = <<>>
  /\ escaped = <<>>
  /\ guildChannels = {}
  /\ channelDirectories = <<>>
  /\ nextChannelId = 0
  /\ lastCommand = [name |-> "none", directory |-> "none", found |-> "none"]
  /\ sessionMessages = <<>>
  /\ resumeReply = "none"
  /\ threadPosts = <<>>
  /\ resumePartMessages = {}
  /\ speakingSessionCount = 0
  /\ pipelines = <<>>
  /\ realtimeInput = <<>>
  /\ isAssistantSpeaking = FALSE
  /\ turn = 0
  /\ turnEnd = "none"
  /\ audioChunks = 0
  /\ opusPacketQueue = <<>>
  /\ workerOut = <<>>
  /\ workerIn = 0
  /\ speaking = FALSE
  /\ played = <<>>
  /\ voiceEntry = 0
  /\ connStatus = [c \in 1..MaxConnections |-> "none"]
  /\ entryWorker = [c \in 1..MaxConnections |-> FALSE]
  /\ workerStatus = [c \in 1..MaxConnections |-> "none"]
  /\ listening = [c \in 1..MaxConnections |-> FALSE]
  /\ joinPc = [c \in 1..MaxConnections |-> "none"]
  /\ awaitingStop = [c \in 1..MaxConnections |-> 0]
  /\ workerFailed = {}
  /\ errorSent = {}
  /\ stash = [from |-> 0, len |-> 0]
  /\ offset = 0
  /\ frames = <<>>
  /\ written = 0
  /\ chunksWritten = 0
  /\ flushed = FALSE
  /\ typingSignal = "none"
  /\ typingInterval = FALSE
  /\ stopTyping = FALSE
  /\ restartTimers = 0
  /\ handlerPc = "none"
  /\ promptPc = "start"
  /\ typingSent = 0

\* at start the database is new: the thread has no row, no session exists
Init ==
  /\ threadRow = NoSession
  /\ nextSession = 0
  /\ InitRest

\* at start the database is that of an earlier run: the thread is bound to
\* session 1, which the Agent created then
InitThread ==
  /\ threadRow = 1
  /\ nextSession = 1
  /\ InitRest

\* ---- helpers ----

\* AbortSignal.aborted of the submission's controller
Aborted(m) == reason[m] # "none"

\* AbortController.abort(r): the first reason sticks, later aborts are no-ops
AbortWith(rs, m, r) == IF rs[m] = "none" THEN [rs EXCEPT ![m] = r] ELSE rs

\* formatPart(part) is a non-empty string ("empty": an empty text, a pending
\* tool, a reasoning part without text)
Renders(part) == part.body # "empty"

\* the parts eventHandler sends as soon as they are updated: a tool part in
\* state running (body "full"), any reasoning part
EarlySend(kind, body) ==
  \/ kind = "tool" /\ body = "full"
  \/ kind = "reasoning"

\* currentParts after the update of one part (replace by id, else push)
UpdateParts(parts, part) ==
  IF \E i \in 1..Len(parts) : parts[i].id = part.id
    THEN [i \in 1..Len(parts) |->
            IF parts[i].id = part.id THEN part ELSE parts[i]]
    ELSE Append(parts, part)

\* sendPartMessage posts the part: it has content and is not in sentPartIds
IsUnsent(m, part) == Renders(part) /\ part.id \notin sentPartIds[m]

RECURSIVE Unsent(_, _)
\* the ids of the parts of a sequence that sendPartMessage posts, in order
Unsent(m, parts) ==
  IF parts = <<>> THEN <<>>
  ELSE IF IsUnsent(m, Head(parts))
    THEN <<Head(parts).id>> \o Unsent(m, Tail(parts))
    ELSE Unsent(m, Tail(parts))

\* the footer condition of the finally block
FooterDue(m) == reason[m] = "none" \/ reason[m] = "finished"

\* the submission has sent its prompt to the Agent (eventHandler is started
\* in the same synchronous block)
Prompted(m) == cons[m] # "none"

\* ---- MessageCreate handler and processVoiceAttachment ----

\* A user message arrives (in the order of the message numbers).  Message 1
\* is posted in the project channel and starts the thread; later messages are
\* posted in the thread and are ignored while the thread has no session row.
\* voice: the message carries an audio attachment.
MessageCreate(m, voice) ==
  /\ main[m] = "new"
  /\ m > 1 => main[m - 1] # "new"
  /\ main' = [main EXCEPT ![m] =
       IF m > 1 /\ threadRow = NoSession THEN "done"
       ELSE IF voice THEN "voice" ELSE "init"]
  /\ UNCHANGED <<rowRead, sess>>
  /\ UNCHANGED <<dbVars, memVars, consVars, discordVars, envVars>>

\* processVoiceAttachment: 'Transcribing voice message...' and the
\* transcription are posted in the thread; then handleOpencodeSession starts
VoiceAttachment(m) ==
  /\ main[m] = "voice"
  /\ main' = [main EXCEPT ![m] = "init"]
  /\ UNCHANGED <<rowRead, sess>>
  /\ UNCHANGED <<dbVars, memVars, consVars, discordVars, envVars>>

\* ---- handleOpencodeSession: resolve the session ----

ReadRowNoReuse(m) ==
  /\ main[m] = "init"
  /\ rowRead' = [rowRead EXCEPT ![m] = NoSession]
  /\ main' = [main EXCEPT ![m] = "create"]
  /\ UNCHANGED sess
  /\ UNCHANGED <<dbVars, memVars, consVars, discordVars, envVars>>

\* initializeOpencodeForDirectory has returned: read the thread's row and
\* ask the Agent for that session, or create one when there is no row
ReadRow(m) ==
  /\ main[m] = "init"
  /\ rowRead' = [rowRead EXCEPT ![m] = threadRow]
  /\ main' = [main EXCEPT ![m] = IF threadRow # NoSession THEN "get" ELSE "create"]
  /\ UNCHANGED sess
  /\ UNCHANGED <<dbVars, memVars, consVars, discordVars, envVars>>

BindNoAbort(m, s) ==
  LET existingController == abortControllers[s] IN
  /\ threadRow' = s
  /\ sess' = [sess EXCEPT ![m] = s]
  /\ rowRead' = [rowRead EXCEPT ![m] = NoSession]
  /\ reason' = reason
  /\ abortControllers' = [abortControllers EXCEPT ![s] = m]
  /\ main' = [main EXCEPT ![m] =
       IF existingController # NoMsg THEN "debounce" ELSE "subscribe"]

\* The session is in hand: store the row, cancel the existing request of the
\* session, install the fresh controller; wait 200 ms when there was one,
\* else call event.subscribe
Bind(m, s) ==
  LET existingController == abortControllers[s] IN
  /\ threadRow' = s
  /\ sess' = [sess EXCEPT ![m] = s]
  /\ rowRead' = [rowRead EXCEPT ![m] = NoSession]
  /\ reason' = IF existingController # NoMsg
                 THEN AbortWith(reason, existingController, "new request")
                 ELSE reason
  /\ abortControllers' = [abortControllers EXCEPT ![s] = m]
  /\ main' = [main EXCEPT ![m] =
       IF existingController # NoMsg THEN "debounce" ELSE "subscribe"]

\* session.get succeeded: the session of the row is reused
GetOk(m) ==
  /\ main[m] = "get"
  /\ Bind(m, rowRead[m])
  /\ UNCHANGED <<partMessages, pendingPermissions>>
  /\ UNCHANGED <<consVars, discordVars, envVars>>

\* session.get failed (the Agent does not know the session): create a new one
GetFails(m) ==
  /\ main[m] = "get"
  /\ nextSession + Cardinality({x \in Msgs : main[x] = "create"}) < MaxSessions
  /\ main' = [main EXCEPT ![m] = "create"]
  /\ UNCHANGED <<rowRead, sess>>
  /\ UNCHANGED <<dbVars, memVars, consVars, discordVars, envVars>>

\* session.create returned a session with a fresh id
CreateReturns(m) ==
  /\ main[m] = "create"
  /\ nextSession < MaxSessions
  /\ nextSession' = nextSession + 1
  /\ Bind(m, nextSession + 1)
  /\ UNCHANGED <<partMessages, pendingPermissions, userAborts>>
  /\ UNCHANGED <<consVars, discordVars>>

\* ---- handleOpencodeSession: debounce, subscribe, prompt ----

DebounceWakeNoCheck(m) ==
  /\ main[m] = "debounce"
  /\ main' = [main EXCEPT ![m] = "subscribe"]
  /\ UNCHANGED <<rowRead, sess>>
  /\ UNCHANGED <<dbVars, memVars, consVars, discordVars, envVars>>

\* The 200 ms are over: return if the fresh controller was aborted meanwhile,
\* else call event.subscribe
DebounceWake(m) ==
  /\ main[m] = "debounce"
  /\ main' = [main EXCEPT ![m] = IF Aborted(m) THEN "done" ELSE "subscribe"]
  /\ UNCHANGED <<rowRead, sess>>
  /\ UNCHANGED <<dbVars, memVars, consVars, discordVars, envVars>>

\* the part ids with a part_messages row of the thread
SeedSentPartIds == partMessages

\* event.subscribe returned: return if aborted; else seed sentPartIds from
\* part_messages, start eventHandler and send the prompt (or command)
SubscribeReturns(m) ==
  /\ main[m] = "subscribe"
  /\ IF Aborted(m)
       THEN /\ main' = [main EXCEPT ![m] = "done"]
            /\ UNCHANGED <<cons, sentPartIds>>
       ELSE /\ main' = [main EXCEPT ![m] = "prompt"]
            /\ sentPartIds' = [sentPartIds EXCEPT ![m] = SeedSentPartIds]
            /\ cons' = [cons EXCEPT ![m] = "loop"]
  /\ UNCHANGED <<rowRead, sess, currentParts, assistantMessageId, todo, permCur>>
  /\ UNCHANGED <<dbVars, memVars, discordVars, envVars>>

\* session.prompt returned without error: abort('finished'), then the
\* reactions are updated
PromptOk(m) ==
  /\ main[m] = "prompt"
  /\ ~Aborted(m)
  /\ reason' = AbortWith(reason, m, "finished")
  /\ main' = [main EXCEPT ![m] = "reactOk"]
  /\ UNCHANGED <<abortControllers, pendingPermissions, rowRead, sess>>
  /\ UNCHANGED <<dbVars, consVars, discordVars, envVars>>

\* originalMessage.reactions.removeAll(); originalMessage.react(check mark)
ReactOk(m) ==
  /\ main[m] = "reactOk"
  /\ reactions' = [reactions EXCEPT ![m] = "ok"]
  /\ main' = [main EXCEPT ![m] = "done"]
  /\ UNCHANGED <<rowRead, sess>>
  /\ UNCHANGED partPosts
  /\ UNCHANGED <<dbVars, memVars, consVars, envVars>>

\* session.prompt returned an error (or threw) and the signal is not aborted:
\* abort('error'), then the reaction and the error message
PromptError(m) ==
  /\ main[m] = "prompt"
  /\ ~Aborted(m)
  /\ reason' = AbortWith(reason, m, "error")
  /\ main' = [main EXCEPT ![m] = "reactErr"]
  /\ UNCHANGED <<abortControllers, pendingPermissions, rowRead, sess>>
  /\ UNCHANGED <<dbVars, consVars, discordVars, envVars>>

\* reactions.removeAll(), react(cross), then
\* sendThreadMessage(thread, 'Unexpected bot Error: ...')
ReactErr(m) ==
  /\ main[m] = "reactErr"
  /\ reactions' = [reactions EXCEPT ![m] = "err"]
  /\ main' = [main EXCEPT ![m] = "done"]
  /\ UNCHANGED <<rowRead, sess>>
  /\ UNCHANGED partPosts
  /\ UNCHANGED <<dbVars, memVars, consVars, envVars>>

\* the signal was aborted while session.prompt was in flight: the call
\* rejects, isAbortError holds and the submission returns silently
PromptAborted(m) ==
  /\ main[m] = "prompt"
  /\ Aborted(m)
  /\ main' = [main EXCEPT ![m] = "done"]
  /\ UNCHANGED <<rowRead, sess>>
  /\ UNCHANGED <<dbVars, memVars, consVars, discordVars, envVars>>

\* ---- /abort command ----

AbortCommandOnlyDelete ==
  /\ userAborts < MaxUserAborts
  /\ threadRow # NoSession
  /\ reason' = reason
  /\ abortControllers' = [abortControllers EXCEPT ![threadRow] = NoMsg]
  /\ userAborts' = userAborts + 1
  /\ UNCHANGED <<pendingPermissions, nextSession>>
  /\ UNCHANGED <<dbVars, mainVars, consVars, discordVars>>

\* abort the controller stored for the thread's session with 'User requested
\* abort' and delete it from abortControllers
AbortCommand ==
  /\ userAborts < MaxUserAborts
  /\ threadRow # NoSession
  /\ LET existingController == abortControllers[threadRow] IN
       /\ reason' = IF existingController # NoMsg
                      THEN AbortWith(reason, existingController, "user abort")
                      ELSE reason
       /\ abortControllers' = [abortControllers EXCEPT ![threadRow] = NoMsg]
  /\ userAborts' = userAborts + 1
  /\ UNCHANGED <<pendingPermissions, nextSession>>
  /\ UNCHANGED <<dbVars, mainVars, consVars, discordVars>>

\* ---- eventHandler ----

\* The events of the stream.  msg, k, kind, body describe the part or the
\* message; perm is the permission id.
MessageEvents ==
  [type : {"message.updated"}, session : Sessions, msg : Msgs,
   k : {1}, kind : {"text"}, body : {"empty"}, perm : {NoPerm}]
PartEvents ==
  {e \in [type : {"message.part.updated"}, session : Sessions, msg : Msgs,
          k : 1..PartsPerMsg, kind : PartKinds, body : {"empty", "full"},
          perm : {NoPerm}] :
     e.kind = "step-finish" => e.k = 1 /\ e.body = "empty"}
ErrorEvents ==
  [type : {"session.error"}, session : Sessions, msg : {NoMsg},
   k : {1}, kind : {"text"}, body : {"empty"}, perm : {NoPerm}]
PermissionEvents ==
  [type : {"permission.updated", "permission.replied"}, session : Sessions,
   msg : {NoMsg}, k : {1}, kind : {"text"}, body : {"empty"}, perm : PermIds]
Events == MessageEvents \cup PartEvents \cup ErrorEvents \cup PermissionEvents

\* What the Agent can emit while submission m listens: a message or part of
\* the listener's session belongs to the answer to a prompt that was sent in
\* that session; of the events of other sessions one of each type is enough.
CanEmit(m, e) ==
  IF e.session = sess[m]
    THEN e.msg # NoMsg => Prompted(e.msg) /\ sess[e.msg] = e.session
    ELSE /\ e.msg \in {NoMsg, 1}
         /\ e.k = 1 /\ e.kind = "text" /\ e.body = "empty"
         /\ e.perm \in {NoPerm, 1}

\* eventHandler has left the finally block's loop: its locals are dead
DropLocals(m) ==
  /\ sentPartIds' = [sentPartIds EXCEPT ![m] = {}]
  /\ currentParts' = [currentParts EXCEPT ![m] = <<>>]
  /\ assistantMessageId' = [assistantMessageId EXCEPT ![m] = NoMsg]
  /\ todo' = [todo EXCEPT ![m] = <<>>]
  /\ permCur' = [permCur EXCEPT ![m] = NoPerm]

\* all remaining parts are sent: the footer is posted if it is due
AfterFlush(m) ==
  /\ cons' = [cons EXCEPT ![m] = IF FooterDue(m) THEN "footer" ELSE "done"]
  /\ DropLocals(m)

EnterFinallyNoFlush(m) == AfterFlush(m)

\* the loop is left (break, or the stream ended by the abort): the finally
\* block sends the parts that were not sent
EnterFinally(m) ==
  LET rest == Unsent(m, currentParts[m]) IN
  IF rest = <<>>
    THEN AfterFlush(m)
    ELSE /\ todo' = [todo EXCEPT ![m] = rest]
         /\ cons' = [cons EXCEPT ![m] = "cleanup"]
         /\ UNCHANGED <<sentPartIds, currentParts, assistantMessageId, permCur>>

\* a handler that returns to the loop at once
Continue(m) == UNCHANGED <<cons, todo>>

OnMessageUpdated(m, e) ==
  /\ IF e.session # sess[m]
       THEN UNCHANGED assistantMessageId
       ELSE assistantMessageId' = [assistantMessageId EXCEPT ![m] = e.msg]
  /\ Continue(m)
  /\ UNCHANGED <<sentPartIds, currentParts, permCur>>

OnPartUpdated(m, e) ==
  LET part == [id |-> <<e.msg, e.k>>, body |-> e.body] IN
  /\ IF e.session # sess[m] \/ e.msg # assistantMessageId[m]
       THEN Continue(m) /\ UNCHANGED currentParts
       ELSE IF e.kind = "step-finish"
         \* send all parts accumulated so far (the step-finish part itself
         \* has no content and is left out of currentParts)
         THEN LET rest == Unsent(m, currentParts[m]) IN
              /\ todo' = [todo EXCEPT ![m] = rest]
              /\ cons' = [cons EXCEPT ![m] = IF rest = <<>> THEN "loop" ELSE "send"]
              /\ UNCHANGED currentParts
         ELSE /\ currentParts' = [currentParts EXCEPT ![m] =
                                    UpdateParts(currentParts[m], part)]
              /\ IF EarlySend(e.kind, e.body) /\ IsUnsent(m, part)
                   THEN /\ todo' = [todo EXCEPT ![m] = <<part.id>>]
                        /\ cons' = [cons EXCEPT ![m] = "send"]
                   ELSE Continue(m)
  /\ UNCHANGED <<sentPartIds, assistantMessageId, permCur>>

\* session.error: for this session the error is posted first; the break
\* after the if/else leaves the loop whatever the session
OnSessionError(m, e) ==
  IF e.session = sess[m]
    THEN /\ cons' = [cons EXCEPT ![m] = "errPost"]
         /\ UNCHANGED <<sentPartIds, currentParts, assistantMessageId, todo, permCur>>
    ELSE EnterFinally(m)

OnPermissionUpdated(m, e) ==
  /\ IF e.session # sess[m]
       THEN UNCHANGED <<cons, permCur>>
       ELSE /\ cons' = [cons EXCEPT ![m] = "permPost"]
            /\ permCur' = [permCur EXCEPT ![m] = e.perm]
  /\ UNCHANGED <<sentPartIds, currentParts, assistantMessageId, todo>>

OnPermissionRepliedAlways(m, e) ==
  IF e.session = sess[m]
    THEN pendingPermissions' = NoPerm
    ELSE UNCHANGED pendingPermissions

\* permission.replied: the pending entry of the thread is deleted when it is
\* for the replied permission id

OnPermissionReplied(m, e) ==
  IF e.session = sess[m] /\ pendingPermissions = e.perm
    THEN pendingPermissions' = NoPerm
    ELSE UNCHANGED pendingPermissions

\* the next event of the stream is taken by the for-await loop
Receive(m, e) ==
  /\ cons[m] = "loop"
  /\ ~Aborted(m)
  /\ CanEmit(m, e)
  /\ CASE e.type = "message.updated" ->
            OnMessageUpdated(m, e) /\ UNCHANGED pendingPermissions
       [] e.type = "message.part.updated" ->
            OnPartUpdated(m, e) /\ UNCHANGED pendingPermissions
       [] e.type = "session.error" ->
            OnSessionError(m, e) /\ UNCHANGED pendingPermissions
       [] e.type = "permission.updated" ->
            OnPermissionUpdated(m, e) /\ UNCHANGED pendingPermissions
       [] e.type = "permission.replied" ->
            OnPermissionReplied(m, e) /\ UNCHANGED consVars
  /\ UNCHANGED <<abortControllers, reason, nextSession, userAborts>>
  /\ UNCHANGED <<dbVars, mainVars, discordVars>>

\* the signal is aborted while the loop waits: the stream ends and the
\* finally block runs
StreamAborted(m) ==
  /\ cons[m] = "loop"
  /\ Aborted(m)
  /\ EnterFinally(m)
  /\ UNCHANGED <<dbVars, memVars, mainVars, discordVars, envVars>>

SendPartDoneNoRow(m) ==
  /\ cons[m] \in {"send", "cleanup"}
  /\ LET p == Head(todo[m]) IN
       /\ partPosts' = [partPosts EXCEPT ![p] = @ + 1]
       /\ partMessages' = partMessages
       /\ IF Tail(todo[m]) = <<>> /\ cons[m] = "cleanup"
            THEN AfterFlush(m)
            ELSE /\ sentPartIds' = [sentPartIds EXCEPT ![m] = @ \cup {p}]
                 /\ todo' = [todo EXCEPT ![m] = Tail(@)]
                 /\ cons' = [cons EXCEPT ![m] =
                      IF Tail(todo[m]) = <<>> THEN "loop" ELSE @]
                 /\ UNCHANGED <<currentParts, assistantMessageId, permCur>>
  /\ UNCHANGED <<threadRow, reactions>>
  /\ UNCHANGED <<memVars, mainVars, envVars>>

\* sendPartMessage of the part in flight completes: the message is in the
\* thread, the id is added to sentPartIds and the part_messages row written;
\* then the next part is sent, or the handler (or the finally block) goes on
SendPartDone(m) ==
  /\ cons[m] \in {"send", "cleanup"}
  /\ LET p == Head(todo[m]) IN
       /\ partPosts' = [partPosts EXCEPT ![p] = @ + 1]
       /\ partMessages' = partMessages \cup {p}
       /\ IF Tail(todo[m]) = <<>> /\ cons[m] = "cleanup"
            THEN AfterFlush(m)
            ELSE /\ sentPartIds' = [sentPartIds EXCEPT ![m] = @ \cup {p}]
                 /\ todo' = [todo EXCEPT ![m] = Tail(@)]
                 /\ cons' = [cons EXCEPT ![m] =
                      IF Tail(todo[m]) = <<>> THEN "loop" ELSE @]
                 /\ UNCHANGED <<currentParts, assistantMessageId, permCur>>
  /\ UNCHANGED <<threadRow, reactions>>
  /\ UNCHANGED <<memVars, mainVars, envVars>>

SessionErrorHandledNoBreak(m) ==
  /\ cons[m] = "errPost"
  /\ reactions' = [reactions EXCEPT ![m] = "err"]
  /\ cons' = [cons EXCEPT ![m] = "loop"]
  /\ UNCHANGED <<sentPartIds, currentParts, assistantMessageId, todo, permCur>>
  /\ UNCHANGED partPosts
  /\ UNCHANGED <<dbVars, memVars, mainVars, envVars>>

\* sendThreadMessage(thread, 'opencode session error: ...'),
\* reactions.removeAll() and react(cross) complete; break
SessionErrorHandled(m) ==
  /\ cons[m] = "errPost"
  /\ reactions' = [reactions EXCEPT ![m] = "err"]
  /\ EnterFinally(m)
  /\ UNCHANGED partPosts
  /\ UNCHANGED <<dbVars, memVars, mainVars, envVars>>

\* the permission prompt is posted and the pending entry of the thread set
PermissionPosted(m) ==
  /\ cons[m] = "permPost"
  /\ pendingPermissions' = permCur[m]
  /\ cons' = [cons EXCEPT ![m] = "loop"]
  /\ permCur' = [permCur EXCEPT ![m] = NoPerm]
  /\ UNCHANGED <<sentPartIds, currentParts, assistantMessageId, todo>>
  /\ UNCHANGED discordVars
  /\ UNCHANGED <<abortControllers, reason>>
  /\ UNCHANGED <<dbVars, mainVars, envVars>>

\* provider.list returned and the footer '_Completed in ..._' is posted
FooterPosted(m) ==
  /\ cons[m] = "footer"
  /\ cons' = [cons EXCEPT ![m] = "done"]
  /\ UNCHANGED <<sentPartIds, currentParts, assistantMessageId, todo, permCur>>
  /\ UNCHANGED discordVars
  /\ UNCHANGED <<dbVars, memVars, mainVars, envVars>>

\* ---- specification ----

Next ==
  \/ \E m \in Msgs, voice \in BOOLEAN : MessageCreate(m, voice) /\ UNCHANGED sysVars
  \/ \E m \in Msgs : VoiceAttachment(m) /\ UNCHANGED sysVars
  \/ \E m \in Msgs : ReadRow(m) /\ UNCHANGED sysVars
  \/ \E m \in Msgs : GetOk(m) /\ UNCHANGED sysVars
  \/ \E m \in Msgs : GetFails(m) /\ UNCHANGED sysVars
  \/ \E m \in Msgs : CreateReturns(m) /\ UNCHANGED sysVars
  \/ \E m \in Msgs : DebounceWake(m) /\ UNCHANGED sysVars
  \/ \E m \in Msgs : SubscribeReturns(m) /\ UNCHANGED sysVars
  \/ \E m \in Msgs : PromptOk(m) /\ UNCHANGED sysVars
  \/ \E m \in Msgs : ReactOk(m) /\ UNCHANGED sysVars
  \/ \E m \in Msgs : PromptError(m) /\ UNCHANGED sysVars
  \/ \E m \in Msgs : ReactErr(m) /\ UNCHANGED sysVars
  \/ \E m \in Msgs : PromptAborted(m) /\ UNCHANGED sysVars
  \/ AbortCommand /\ UNCHANGED sysVars
  \/ \E m \in Msgs, e \in Events : Receive(m, e) /\ UNCHANGED sysVars
  \/ \E m \in Msgs : StreamAborted(m) /\ UNCHANGED sysVars
  \/ \E m \in Msgs : SendPartDone(m) /\ UNCHANGED sysVars
  \/ \E m \in Msgs : SessionErrorHandled(m) /\ UNCHANGED sysVars
  \/ \E m \in Msgs : PermissionPosted(m) /\ UNCHANGED sysVars
  \/ \E m \in Msgs : FooterPosted(m) /\ UNCHANGED sysVars

Spec == Init /\ [][Next]_vars

\* the submissions of the bridge while the Agent's stream carries no event
NextThread ==
  \/ \E m \in Msgs, voice \in BOOLEAN : MessageCreate(m, voice) /\ UNCHANGED sysVars
  \/ \E m \in Msgs : VoiceAttachment(m) /\ UNCHANGED sysVars
  \/ \E m \in Msgs : ReadRow(m) /\ UNCHANGED sysVars
  \/ \E m \in Msgs : GetOk(m) /\ UNCHANGED sysVars
  \/ \E m \in Msgs : GetFails(m) /\ UNCHANGED sysVars
  \/ \E m \in Msgs : CreateReturns(m) /\ UNCHANGED sysVars
  \/ \E m \in Msgs : DebounceWake(m) /\ UNCHANGED sysVars
  \/ \E m \in Msgs : SubscribeReturns(m) /\ UNCHANGED sysVars
  \/ \E m \in Msgs : PromptOk(m) /\ UNCHANGED sysVars
  \/ \E m \in Msgs : ReactOk(m) /\ UNCHANGED sysVars
  \/ \E m \in Msgs : PromptError(m) /\ UNCHANGED sysVars
  \/ \E m \in Msgs : ReactErr(m) /\ UNCHANGED sysVars
  \/ \E m \in Msgs : PromptAborted(m) /\ UNCHANGED sysVars
  \/ \E m \in Msgs : StreamAborted(m) /\ UNCHANGED sysVars
  \/ \E m \in Msgs : FooterPosted(m) /\ UNCHANGED sysVars

\* the bridge started on a thread that an earlier run bound to a session
SpecThread == InitThread /\ [][NextThread]_vars

\* ---- /accept, /accept-always, /reject and the rest of /abort ----
\* The Agent's HTTP calls made by the command handlers are taken to return.

\* the commands that resolve a permission
CmdNames == {"accept", "accept-always", "reject"}

\* the response sent for a command
ScopeOf(name) ==
  IF name = "accept-always" THEN "always"
  ELSE IF name = "accept" THEN "once" ELSE "reject"

\* The command arrives in the thread: without a pending entry it is answered
\* 'No pending permission request in this thread'; else the entry is kept in
\* `pending` and initializeOpencodeForDirectory is awaited
ResolutionCommand(c, name) ==
  /\ cmds[c].pc = "idle"
  /\ cmds' = [cmds EXCEPT ![c] =
       IF pendingPermissions = NoPerm
         THEN [pc |-> "done", perm |-> NoPerm, scope |-> "none"]
         ELSE [pc |-> "init", perm |-> pendingPermissions,
               scope |-> ScopeOf(name)]]
  /\ UNCHANGED <<agentReplies, abortCmd, agentAborts, lastReplied>>
  /\ UNCHANGED bridgeVars

\* postSessionIdPermissionsPermissionId is called for the entry read
ResolutionCall(c) ==
  /\ cmds[c].pc = "init"
  /\ agentReplies' = agentReplies \cup {<<cmds[c].perm, cmds[c].scope>>}
  /\ cmds' = [cmds EXCEPT ![c].pc = "call"]
  /\ UNCHANGED <<abortCmd, agentAborts, lastReplied>>
  /\ UNCHANGED bridgeVars

ResolutionReturnsKeep(c) ==
  /\ cmds[c].pc = "call"
  /\ cmds' = [cmds EXCEPT ![c] = [pc |-> "done", perm |-> NoPerm, scope |-> "none"]]
  /\ UNCHANGED pendingPermissions
  /\ UNCHANGED <<agentReplies, abortCmd, agentAborts, lastReplied>>
  /\ UNCHANGED <<abortControllers, reason>>
  /\ UNCHANGED <<dbVars, mainVars, consVars, discordVars, envVars>>

\* the call returned: pendingPermissions.delete(channel.id) and the
\* confirmation is sent
ResolutionReturns(c) ==
  /\ cmds[c].pc = "call"
  /\ cmds' = [cmds EXCEPT ![c] = [pc |-> "done", perm |-> NoPerm, scope |-> "none"]]
  /\ pendingPermissions' = NoPerm
  /\ UNCHANGED <<agentReplies, abortCmd, agentAborts, lastReplied>>
  /\ UNCHANGED <<abortControllers, reason>>
  /\ UNCHANGED <<dbVars, mainVars, consVars, discordVars, envVars>>

\* /abort up to its first await: the controller of the row's session is
\* aborted and deleted, then initializeOpencodeForDirectory is awaited
AbortStart ==
  /\ abortCmd.pc = "idle"
  /\ AbortCommand
  /\ abortCmd' = [pc |-> "init", session |-> threadRow]
  /\ UNCHANGED <<cmds, agentReplies, agentAborts, lastReplied>>

\* session.abort is called for the session read from the row
AbortCall ==
  /\ abortCmd.pc = "init"
  /\ agentAborts' = agentAborts \cup {abortCmd.session}
  /\ abortCmd' = [abortCmd EXCEPT !.pc = "call"]
  /\ UNCHANGED <<cmds, agentReplies, lastReplied>>
  /\ UNCHANGED bridgeVars

\* session.abort returned: command.reply('Request aborted')
AbortReturns ==
  /\ abortCmd.pc = "call"
  /\ abortCmd' = [abortCmd EXCEPT !.pc = "done"]
  /\ UNCHANGED <<cmds, agentReplies, agentAborts, lastReplied>>
  /\ UNCHANGED bridgeVars

\* the permission events sent while commands are issued
CmdEvents ==
  [type : {"permission.updated", "permission.replied"}, session : Sessions,
   msg : {NoMsg}, k : {1}, kind : {"text"}, body : {"empty"},
   perm : 1..MaxCmdPerms]

\* eventHandler of submission m takes a permission event
ReceivePermission(m, e) ==
  /\ Receive(m, e)
  /\ lastReplied' = IF e.type = "permission.replied" /\ e.session = sess[m]
                      THEN e.perm ELSE lastReplied
  /\ UNCHANGED <<cmds, agentReplies, abortCmd, agentAborts>>

\* One submission that runs while permissions are asked, resolved by command
\* or by the Agent, and the request is aborted by command.
NextCmd ==
  \/ MessageCreate(1, FALSE) /\ UNCHANGED sysVars
  \/ ReadRow(1) /\ UNCHANGED sysVars
  \/ CreateReturns(1) /\ UNCHANGED sysVars
  \/ SubscribeReturns(1) /\ UNCHANGED sysVars
  \/ \E e \in CmdEvents : ReceivePermission(1, e) /\ UNCHANGED auxVars
  \/ PermissionPosted(1) /\ UNCHANGED sysVars
  \/ StreamAborted(1) /\ UNCHANGED sysVars
  \/ PromptAborted(1) /\ UNCHANGED sysVars
  \/ \E c \in Cmds, name \in CmdNames : ResolutionCommand(c, name) /\ UNCHANGED auxVars
  \/ \E c \in Cmds : ResolutionCall(c) /\ UNCHANGED auxVars
  \/ \E c \in Cmds : ResolutionReturns(c) /\ UNCHANGED auxVars
  \/ AbortStart /\ UNCHANGED auxVars
  \/ AbortCall /\ UNCHANGED auxVars
  \/ AbortReturns /\ UNCHANGED auxVars

SpecCmd == Init /\ [][NextCmd]_vars

\* ---- Agent server supervisor ----

\* the lowest call not yet made
FreeCall ==
  IF \E c \in Calls : calls[c].pc = "idle"
    THEN CHOOSE c \in Calls :
           calls[c].pc = "idle" /\ \A d \in Calls : calls[d].pc = "idle" => c <= d
    ELSE NoCall

\* initializeOpencodeForDirectory up to its first await: an entry is reused,
\* otherwise the call goes on to getOpenPort
Started(entry, c, origin, appId) ==
  [calls EXCEPT ![c] = [pc |-> IF entry # NoCall THEN "reused" ELSE "port",
                        origin |-> origin, appId |-> appId]]

\* a handler calls initializeOpencodeForDirectory
ClientFor(appId) ==
  /\ Cardinality({c \in Calls : calls[c].origin = "client"}) < MaxClientCalls
  /\ FreeCall # NoCall
  /\ calls' = Started(opencodeServers, FreeCall, "client", appId)
  /\ UNCHANGED <<opencodeServers, serverRetryCount, proc, terminalError, respawns>>

\* getOpenPort returns: the process is spawned, the call awaits waitForServer
PortReturns(c) ==
  /\ calls[c].pc = "port"
  /\ proc' = [proc EXCEPT ![c] = "running"]
  /\ calls' = [calls EXCEPT ![c].pc = "wait"]
  /\ UNCHANGED <<opencodeServers, serverRetryCount, terminalError, respawns>>

\* waitForServer returns: with an appId the keys are set first, without one
\* the entry is stored at once
WaitReturns(c) ==
  /\ calls[c].pc = "wait"
  /\ proc[c] = "running"
  /\ IF calls[c].appId
       THEN /\ calls' = [calls EXCEPT ![c].pc = "auth"]
            /\ UNCHANGED opencodeServers
       ELSE /\ calls' = [calls EXCEPT ![c].pc = "done"]
            /\ opencodeServers' = c
  /\ UNCHANGED <<serverRetryCount, proc, terminalError, respawns>>

\* waitForServer gives up after its 30 attempts, on a process that has
\* exited or on one that runs and has not answered; the process is left as
\* it is
WaitThrows(c) ==
  /\ calls[c].pc = "wait"
  /\ calls' = [calls EXCEPT ![c].pc = "failed"]
  /\ UNCHANGED <<opencodeServers, serverRetryCount, proc, terminalError, respawns>>

\* the auth.set calls are over: the entry is stored
AuthReturns(c) ==
  /\ calls[c].pc = "auth"
  /\ calls' = [calls EXCEPT ![c].pc = "done"]
  /\ opencodeServers' = c
  /\ UNCHANGED <<serverRetryCount, proc, terminalError, respawns>>

ProcExitNoCount(c, code) ==
  /\ proc[c] = "running"
  /\ proc' = [proc EXCEPT ![c] = "exited"]
  /\ opencodeServers' = NoCall
  /\ IF code # 0
       THEN /\ FreeCall # NoCall
            /\ respawns' = respawns + 1
            /\ calls' = Started(NoCall, FreeCall, "respawn", FALSE)
            /\ UNCHANGED <<serverRetryCount, terminalError>>
       ELSE /\ serverRetryCount' = 0
            /\ respawns' = 0
            /\ UNCHANGED <<calls, terminalError>>

\* serverProcess.on('exit'): the entry of the directory is deleted; after a
\* non-clean exit the server is restarted while the retry count is below 5
ProcExit(c, code) ==
  /\ proc[c] = "running"
  /\ proc' = [proc EXCEPT ![c] = "exited"]
  /\ opencodeServers' = NoCall
  /\ IF code # 0
       THEN LET retryCount == serverRetryCount IN
            IF retryCount < MaxRetries
              THEN /\ FreeCall # NoCall
                   /\ serverRetryCount' = retryCount + 1
                   /\ respawns' = respawns + 1
                   /\ calls' = Started(NoCall, FreeCall, "respawn", FALSE)
                   /\ UNCHANGED terminalError
              ELSE /\ terminalError' = TRUE
                   /\ UNCHANGED <<serverRetryCount, respawns, calls>>
       ELSE /\ serverRetryCount' = 0
            /\ respawns' = 0
            /\ UNCHANGED <<calls, terminalError>>

\* the state outside the supervisor
outsideSrv == <<bridgeVars, cmdVars, shutVars, lockVars, authVars, moreVars>>

NextServer ==
  \/ \E appId \in BOOLEAN : ClientFor(appId) /\ UNCHANGED outsideSrv
  \/ \E c \in Calls : PortReturns(c) /\ UNCHANGED outsideSrv
  \/ \E c \in Calls : WaitReturns(c) /\ UNCHANGED outsideSrv
  \/ \E c \in Calls : WaitThrows(c) /\ UNCHANGED outsideSrv
  \/ \E c \in Calls : AuthReturns(c) /\ UNCHANGED outsideSrv
  \/ \E c \in Calls, code \in ExitCodes : ProcExit(c, code) /\ UNCHANGED outsideSrv

SpecServer == Init /\ [][NextServer]_vars

\* ---- shutdown ----

\* the bot joins the voice channel of a guild
VoiceJoin(g) ==
  /\ ~exited
  /\ g \notin voiceConnections
  /\ voiceConnections' = voiceConnections \cup {g}
  /\ UNCHANGED <<shuttingDown, cleaning, sigs, db, destroyed, exited, shutLog>>
  /\ UNCHANGED srvVars

\* getDatabase opens the database when there is no handle
GetDatabase ==
  /\ ~exited
  /\ ~db
  /\ db' = TRUE
  /\ UNCHANGED <<shuttingDown, voiceConnections, cleaning, sigs, destroyed,
                 exited, shutLog>>
  /\ UNCHANGED srvVars

\* handleShutdown from the end of the voice cleanup on: SIGTERM to the
\* server with an entry, the entries cleared, the database closed, the
\* client destroyed, and process.exit(0) unless skipExit (SIGUSR2)
Teardown(h, sig, log) ==
  /\ proc' = [c \in Calls |->
               IF c = opencodeServers /\ proc[c] = "running" THEN "exited" ELSE proc[c]]
  /\ opencodeServers' = NoCall
  /\ db' = FALSE
  /\ destroyed' = TRUE
  /\ exited' = (sig # "SIGUSR2")
  /\ shutLog' = log \o (IF sig = "SIGUSR2"
                          THEN <<"voice", "servers", "db", "client">>
                          ELSE <<"voice", "servers", "db", "client", "exit">>)
  /\ sigs' = [sigs EXCEPT ![h] =
                [sig |-> sig, pc |-> IF sig = "SIGUSR2" THEN "import" ELSE "exit"]]
  /\ UNCHANGED <<serverRetryCount, calls, terminalError, respawns>>

\* a signal is delivered: its handler calls handleShutdown, which returns at
\* once when a shutdown is under way; otherwise it sets shuttingDown, starts
\* the cleanup of every voice connection and awaits them, or goes on at once
\* when there is none
Signal(h, sig) ==
  /\ ~exited
  /\ sigs[h].pc = "idle"
  /\ \A k \in SigRuns : k < h => sigs[k].pc # "idle"
  /\ IF shuttingDown
       THEN /\ sigs' = [sigs EXCEPT ![h] =
                          [sig |-> sig,
                           pc |-> IF sig = "SIGUSR2" THEN "import" ELSE "returned"]]
            /\ UNCHANGED <<shuttingDown, voiceConnections, cleaning, db,
                           destroyed, exited, shutLog>>
            /\ UNCHANGED srvVars
       ELSE /\ shuttingDown' = TRUE
            /\ IF voiceConnections = {}
                 THEN /\ Teardown(h, sig, Append(shutLog, "shuttingDown"))
                      /\ UNCHANGED <<voiceConnections, cleaning>>
                 ELSE /\ cleaning' = voiceConnections
                      /\ sigs' = [sigs EXCEPT ![h] = [sig |-> sig, pc |-> "voice"]]
                      /\ shutLog' = Append(shutLog, "shuttingDown")
                      /\ UNCHANGED <<voiceConnections, db, destroyed, exited>>
                      /\ UNCHANGED srvVars

\* cleanupVoiceConnection of a guild is over: the entry is removed
CleanupDone(g) ==
  /\ ~exited
  /\ g \in cleaning
  /\ cleaning' = cleaning \ {g}
  /\ voiceConnections' = voiceConnections \ {g}
  /\ UNCHANGED <<shuttingDown, sigs, db, destroyed, exited, shutLog>>
  /\ UNCHANGED srvVars

\* every cleanup has settled: the rest of handleShutdown runs
AllSettled(h) ==
  /\ ~exited
  /\ sigs[h].pc = "voice"
  /\ cleaning = {}
  /\ Teardown(h, sigs[h].sig, shutLog)
  /\ UNCHANGED <<shuttingDown, voiceConnections, cleaning>>

\* SIGUSR2: the import has returned, the new process is spawned, and
\* process.exit(0)
ImportReturns(h) ==
  /\ ~exited
  /\ sigs[h].pc = "import"
  /\ sigs' = [sigs EXCEPT ![h].pc = "exit"]
  /\ exited' = TRUE
  /\ shutLog' = Append(shutLog, "exit")
  /\ UNCHANGED <<shuttingDown, voiceConnections, cleaning, db, destroyed>>
  /\ UNCHANGED srvVars

\* the state outside the shutdown and the supervisor
outsideShut == <<bridgeVars, cmdVars, lockVars, authVars, moreVars>>

NextShutdown ==
  \/ ClientFor(FALSE) /\ ~exited /\ UNCHANGED outsideSrv
  \/ PortReturns(1) /\ ~exited /\ UNCHANGED outsideSrv
  \/ WaitReturns(1) /\ ~exited /\ UNCHANGED outsideSrv
  \/ \E g \in Guilds : VoiceJoin(g) /\ UNCHANGED outsideShut
  \/ GetDatabase /\ UNCHANGED outsideShut
  \/ \E h \in SigRuns, sig \in Signals : Signal(h, sig) /\ UNCHANGED outsideShut
  \/ \E g \in Guilds : CleanupDone(g) /\ UNCHANGED outsideShut
  \/ \E h \in SigRuns : AllSettled(h) /\ UNCHANGED outsideShut
  \/ \E h \in SigRuns : ImportReturns(h) /\ UNCHANGED outsideShut

SpecShutdown == Init /\ [][NextShutdown]_vars

\* ---- single instance, restart wrapper ----

\* the lowest process not yet started
FreeInst ==
  IF \E i \in Insts : inst[i].pc = "none"
    THEN CHOOSE i \in Insts :
           inst[i].pc = "none" /\ \A k \in Insts : inst[k].pc = "none" => i <= k
    ELSE NoInst

\* process.exit(code), or the death of the process by a signal: the lock
\* port is released with the process
Ended(i, code, signal) ==
  /\ inst' = [inst EXCEPT ![i] = [pc |-> "exited", code |-> code, signal |-> signal]]
  /\ lockPort' = IF lockPort = i THEN NoInst ELSE lockPort

\* the cli is started by hand: checkSingleInstance sends its probe
Launch ==
  /\ FreeInst # NoInst
  /\ inst' = [inst EXCEPT ![FreeInst].pc = "probe"]
  /\ UNCHANGED <<lockPort, wrapper>>

CheckSingleInstanceNoExit(i) ==
  /\ inst[i].pc = "probe"
  /\ inst' = [inst EXCEPT ![i].pc = "listen"]
  /\ UNCHANGED <<lockPort, wrapper>>

\* the probe of checkSingleInstance is over: a listener on the lock port
\* answers 200 and the process exits with code 1; a refused connection lets
\* it go on to startLockServer and run
CheckSingleInstance(i) ==
  /\ inst[i].pc = "probe"
  /\ IF lockPort # NoInst
       THEN Ended(i, 1, "none")
       ELSE /\ inst' = [inst EXCEPT ![i].pc = "listen"]
            /\ UNCHANGED lockPort
  /\ UNCHANGED wrapper

\* server.listen(LOCK_PORT) takes effect: the port is bound, or EADDRINUSE
\* is reported and the process exits with code 1
StartLockServer(i) ==
  /\ inst[i].pc = "listen"
  /\ IF lockPort = NoInst
       THEN /\ lockPort' = i
            /\ inst' = [inst EXCEPT ![i].pc = "run"]
       ELSE Ended(i, 1, "none")
  /\ UNCHANGED wrapper

\* run has gone through the setup and started the bot
BotStart(i) ==
  /\ inst[i].pc = "run"
  /\ inst' = [inst EXCEPT ![i].pc = "bot"]
  /\ UNCHANGED <<lockPort, wrapper>>

\* the process ends: it exits with a code, or a signal kills it
Stop(i, code, signal) ==
  /\ inst[i].pc \in {"run", "bot"}
  /\ Ended(i, IF signal = "none" THEN code ELSE 0, signal)
  /\ UNCHANGED wrapper

\* child.on('exit'): the code the wrapper makes of the child's end
WrapperCode(code, signal) ==
  IF signal # "none"
    THEN IF signal = "SIGINT" THEN 130
         ELSE IF signal = "SIGTERM" THEN 143
         ELSE 1
    ELSE code

\* the codes after which the wrapper exits instead of starting the cli again
NoRestart(code) == code = 0 \/ code = 130 \/ code = 143 \/ code = 64

\* the wrapper spawns the cli, at its start and after the throttle
WrapperSpawn ==
  /\ wrapper.pc \in {"off", "sleep"}
  /\ FreeInst # NoInst
  /\ inst' = [inst EXCEPT ![FreeInst].pc = "probe"]
  /\ wrapper' = [pc |-> "child", child |-> FreeInst]
  /\ UNCHANGED lockPort

\* the wrapper's child has exited: the wrapper exits with the code, or loops
WrapperChildExit ==
  /\ wrapper.pc = "child"
  /\ inst[wrapper.child].pc = "exited"
  /\ LET code == WrapperCode(inst[wrapper.child].code, inst[wrapper.child].signal) IN
       wrapper' = [wrapper EXCEPT !.pc = IF NoRestart(code) THEN "exited" ELSE "sleep"]
  /\ UNCHANGED <<lockPort, inst>>

\* the state outside the lock and the wrapper
outsideLock == <<bridgeVars, cmdVars, srvVars, shutVars, authVars, moreVars>>

NextLock ==
  \/ Launch /\ UNCHANGED outsideLock
  \/ \E i \in Insts : CheckSingleInstance(i) /\ UNCHANGED outsideLock
  \/ \E i \in Insts : StartLockServer(i) /\ UNCHANGED outsideLock
  \/ \E i \in Insts : BotStart(i) /\ UNCHANGED outsideLock
  \/ \E i \in Insts, code \in StopCodes, signal \in StopSignals :
       Stop(i, code, signal) /\ UNCHANGED outsideLock
  \/ WrapperSpawn /\ UNCHANGED outsideLock
  \/ WrapperChildExit /\ UNCHANGED outsideLock

SpecLock == Init /\ [][NextLock]_vars

\* ---- authorization of the actor ----

\* String.prototype.toLowerCase on the role names
ToLowerCase(name) ==
  CASE name = "Remote-Vibe" -> "remote-vibe"
    [] name = "REMOTE-VIBE" -> "remote-vibe"
    [] OTHER -> name

\* member.roles.cache.some((role) => role.name.toLowerCase() === 'remote-vibe')
HasRemoteVibeRole(e) == \E name \in e.roles : ToLowerCase(name) = "remote-vibe"

\* !isOwner && !isAdmin && !canManageServer && !hasRemoteVibeRole, negated
Authoritative(e) == e.owner \/ e.admin \/ e.manage \/ HasRemoteVibeRole(e)

\* the MessageCreate handler up to the end of its authorization check:
\* TRUE when it goes on to the channel handling
MessagePasses(e) ==
  IF e.bot THEN FALSE
  ELSE IF e.partial = "failed" THEN FALSE
  ELSE IF e.member THEN Authoritative(e)
  ELSE TRUE

\* the VoiceStateUpdate handler up to the end of its authorization check
VoicePasses(e) ==
  IF ~e.member THEN FALSE
  ELSE Authoritative(e)

\* discordClient.on(Events.MessageCreate); the handlers keep nothing from
\* one event to the next, a behaviour handles one event
OnMessageCreate(e) ==
  /\ event = NoEvent
  /\ e.kind = "message"
  /\ event' = e
  /\ processed' = MessagePasses(e)

\* discordClient.on(Events.VoiceStateUpdate): voice states are never partial
OnVoiceStateUpdate(e) ==
  /\ event = NoEvent
  /\ e.kind = "voice"
  /\ e.partial = "no"
  /\ event' = e
  /\ processed' = VoicePasses(e)

\* the state outside the authorization check
outsideAuth == <<bridgeVars, cmdVars, srvVars, shutVars, lockVars, moreVars>>

NextAuth ==
  \/ \E e \in GatewayEvents : OnMessageCreate(e) /\ UNCHANGED outsideAuth
  \/ \E e \in GatewayEvents : OnVoiceStateUpdate(e) /\ UNCHANGED outsideAuth

SpecAuth == Init /\ [][NextAuth]_vars

\* ---- markdown: splitMarkdownForDiscord, escapeBackticksInCodeBlocks ----

\* A string is a sequence of pieces; a piece is a character or a run of
\* characters that is never cut: the fence of three backticks, a language, a
\* word; nl is the newline, tick the backtick.
PieceLen(a) ==
  CASE a = "fence" -> 3
    [] a = "js" -> 2
    [] a = "word" -> 4
    [] a = "- " -> 2
    [] a = "  " -> 2
    [] a = "averyverylongline" -> 17
    [] OTHER -> 1

RECURSIVE StrLen(_)
\* String.length
StrLen(str) == IF str = <<>> THEN 0 ELSE PieceLen(Head(str)) + StrLen(Tail(str))

RECURSIVE Flatten(_)
\* the concatenation of a sequence of strings
Flatten(strs) == IF strs = <<>> THEN <<>> ELSE Head(strs) \o Flatten(Tail(strs))

RECURSIVE SplitNewline(_)
\* String.split at the newlines
SplitNewline(str) ==
  IF \A i \in 1..Len(str) : str[i] # "nl"
    THEN <<str>>
    ELSE LET i == CHOOSE i \in 1..Len(str) :
                    str[i] = "nl" /\ \A k \in 1..(i - 1) : str[k] # "nl" IN
         <<SubSeq(str, 1, i - 1)>> \o SplitNewline(SubSeq(str, i + 1, Len(str)))

\* the code texts, languages and tails of the fenced blocks considered; the
\* tail is what of the newline after the closing fence belongs to the token
CodeTexts ==
  {<<"word">>, <<"word", "nl", "word">>, <<"averyverylongline">>, <<"x", "tick", "x">>}

Langs == {<<>>, <<"js">>}

\* raw of a fenced code token, as the Lexer keeps it
CodeRaw(lang, text, tail) ==
  <<"fence">> \o lang \o <<"nl">> \o text \o <<"nl", "fence">> \o tail

\* the tokens of Lexer.lex: fenced code blocks, a paragraph, a long
\* paragraph line, blank lines, and a list item that holds a fenced block
\* (the Lexer returns it as one list token whose raw has the fences)
CodeTokens ==
  {[type |-> "code", lang |-> l, text |-> t, raw |-> CodeRaw(l, t, tail)] :
     l \in Langs, t \in CodeTexts, tail \in {<<>>, <<"nl">>}}

OtherTokens ==
  {[type |-> "paragraph", lang |-> <<>>, text |-> <<>>, raw |-> <<"word", "nl">>],
   [type |-> "paragraph", lang |-> <<>>, text |-> <<>>, raw |-> <<"averyverylongline">>],
   [type |-> "space", lang |-> <<>>, text |-> <<>>, raw |-> <<"nl", "nl">>],
   [type |-> "list", lang |-> <<>>, text |-> <<>>,
    raw |-> <<"- ", "word", "nl", "  ", "fence", "nl", "  ", "word", "nl",
              "  ", "fence", "nl">>]}

Tokens == CodeTokens \cup OtherTokens

\* the token sequences the Lexer can return: the newline after a closing
\* fence is part of the code token unless the text ends there or blank lines
\* follow
Lexed(toks) ==
  \A i \in 1..Len(toks) :
    (toks[i].type = "code" /\ toks[i].raw[Len(toks[i].raw)] # "nl") =>
      (i = Len(toks) \/ toks[i + 1].type = "space")

TokenSeqs ==
  {toks \in UNION {[1..n -> Tokens] : n \in 1..MaxTokens} : Lexed(toks)}

\* the maxLength values tried
MaxLengths == {12, 16, 24}

\* the text the tokens were lexed from
ContentOf(toks) == Flatten([i \in 1..Len(toks) |-> toks[i].raw])

LineInfo(text, inCodeBlock, lang, isOpeningFence, isClosingFence) ==
  [text |-> text, inCodeBlock |-> inCodeBlock, lang |-> lang,
   isOpeningFence |-> isOpeningFence, isClosingFence |-> isClosingFence]

\* the lines of one token
TokenLines(token) ==
  IF token.type = "code"
    THEN LET codeLines == SplitNewline(token.text) IN
         <<LineInfo(<<"fence">> \o token.lang \o <<"nl">>, FALSE, token.lang, TRUE, FALSE)>>
         \o [i \in 1..Len(codeLines) |->
               LineInfo(codeLines[i] \o <<"nl">>, TRUE, token.lang, FALSE, FALSE)]
         \o <<LineInfo(<<"fence", "nl">>, FALSE, <<>>, FALSE, TRUE)>>
    ELSE LET rawLines == SplitNewline(token.raw)
             texts == [i \in 1..Len(rawLines) |->
                         IF i = Len(rawLines) THEN rawLines[i]
                         ELSE rawLines[i] \o <<"nl">>] IN
         SelectSeq([i \in 1..Len(texts) |->
                      LineInfo(texts[i], FALSE, <<>>, FALSE, FALSE)],
                   LAMBDA line : line.text # <<>>)

\* a piece of a chunk: its text, and whether the splitter put it in at a cut
Item(text, injected) == [text |-> text, injected |-> injected]

\* the text of a chunk
ChunkText(chunk) == Flatten([i \in 1..Len(chunk) |-> chunk[i].text])

\* one turn of the loop over the lines; st is [chunks, currentChunk,
\* open (currentLang !== null)]
SplitStep(st, line, max) ==
  LET wouldExceed == StrLen(ChunkText(st.currentChunk)) + StrLen(line.text) > max IN
  IF wouldExceed /\ st.currentChunk # <<>>
    THEN LET closingIsLine == line.isClosingFence /\ st.open
             closed == IF st.open
                         THEN Append(st.currentChunk,
                                     Item(<<"fence", "nl">>, ~closingIsLine))
                         ELSE st.currentChunk
             pushed == Append(st.chunks, closed) IN
         IF closingIsLine
           THEN [chunks |-> pushed, currentChunk |-> <<>>, open |-> FALSE]
         ELSE IF line.inCodeBlock \/ line.isOpeningFence
           THEN [chunks |-> pushed,
                 currentChunk |->
                   <<Item(<<"fence">> \o line.lang \o <<"nl">>, ~line.isOpeningFence)>>
                   \o (IF line.isOpeningFence THEN <<>> ELSE <<Item(line.text, FALSE)>>),
                 open |-> TRUE]
         ELSE [chunks |-> pushed, currentChunk |-> <<Item(line.text, FALSE)>>,
               open |-> FALSE]
    ELSE [chunks |-> st.chunks,
          currentChunk |-> Append(st.currentChunk, Item(line.text, FALSE)),
          open |-> IF line.inCodeBlock \/ line.isOpeningFence THEN TRUE
                   ELSE IF line.isClosingFence THEN FALSE
                   ELSE st.open]

RECURSIVE SplitLoop(_, _, _)
SplitLoop(st, lines, max) ==
  IF lines = <<>> THEN st
  ELSE SplitLoop(SplitStep(st, Head(lines), max), Tail(lines), max)

\* splitMarkdownForDiscord({content, maxLength}), content given by its tokens
SplitMarkdownForDiscord(toks, max) ==
  IF StrLen(ContentOf(toks)) <= max
    THEN <<<<Item(ContentOf(toks), FALSE)>>>>
    ELSE LET lines == Flatten([i \in 1..Len(toks) |-> TokenLines(toks[i])])
             st == SplitLoop([chunks |-> <<>>, currentChunk |-> <<>>, open |-> FALSE],
                             lines, max) IN
         IF st.currentChunk # <<>> THEN Append(st.chunks, st.currentChunk)
         ELSE st.chunks

RECURSIVE ReplaceBackticks(_)
\* String.replace of every backtick by backslash, backtick
ReplaceBackticks(str) ==
  IF str = <<>> THEN <<>>
  ELSE (IF Head(str) = "tick" THEN <<"backslash", "tick">> ELSE <<Head(str)>>)
       \o ReplaceBackticks(Tail(str))

\* escapeBackticksInCodeBlocks, token by token: what it returns for the
\* token, and the token the Lexer makes of that
EscapeToken(token) ==
  IF token.type = "code"
    THEN [type |-> "code", lang |-> token.lang, text |-> ReplaceBackticks(token.text),
          raw |-> CodeRaw(token.lang, ReplaceBackticks(token.text), <<"nl">>)]
    ELSE token

\* escapeBackticksInCodeBlocks(markdown) with the tokens of its result
EscapeBackticksInCodeBlocks(toks) == [i \in 1..Len(toks) |-> EscapeToken(toks[i])]

\* a text is split
Split(toks, max) ==
  /\ content = <<>>
  /\ content' = toks
  /\ maxLength' = max
  /\ chunks' = SplitMarkdownForDiscord(toks, max)
  /\ escaped' = <<>>

\* a text is escaped, and the result escaped again
Escape(toks) ==
  /\ content = <<>>
  /\ content' = toks
  /\ escaped' = <<ContentOf(EscapeBackticksInCodeBlocks(toks)),
                  ContentOf(EscapeBackticksInCodeBlocks(EscapeBackticksInCodeBlocks(toks)))>>
  /\ UNCHANGED <<maxLength, chunks>>

\* the state outside the markdown functions
outsideMd == <<bridgeVars, cmdVars, srvVars, shutVars, lockVars, authVars, chanVars,
              resumeVars, voiceInVars, voiceOutVars, lastVars>>

NextMarkdown ==
  \/ \E toks \in TokenSeqs, max \in MaxLengths : Split(toks, max) /\ UNCHANGED outsideMd
  \/ \E toks \in TokenSeqs : Escape(toks) /\ UNCHANGED outsideMd

SpecMarkdown == Init /\ [][NextMarkdown]_vars

\* ---- the project channels (/add-project, /add-existing-project) ----

\* project directories
Directories == {"dirA", "dirB"}

\* channel ids Discord hands out
MaxChannelIds == 6

ChannelIds == 1..MaxChannelIds

\* the first row of channel_directories with the directory and the type, or
\* <<>> when the SELECT returns nothing
RECURSIVE FirstRow(_, _, _)
FirstRow(rows, directory, type) ==
  IF rows = <<>> THEN <<>>
  ELSE IF Head(rows).directory = directory /\ Head(rows).channel_type = type
       THEN <<Head(rows)>>
       ELSE FirstRow(Tail(rows), directory, type)

\* DELETE FROM channel_directories WHERE channel_id = ?
RECURSIVE DeleteRow(_, _)
DeleteRow(rows, id) ==
  IF rows = <<>> THEN <<>>
  ELSE IF Head(rows).channel_id = id THEN DeleteRow(Tail(rows), id)
       ELSE <<Head(rows)>> \o DeleteRow(Tail(rows), id)

\* guild.channels.fetch(channelId) finds the channel
ChannelExists(id) == \E c \in guildChannels : c.id = id

\* what the command finds for the directory: no text row, a row of a
\* channel that exists, or a row of a channel that is gone
Found(directory) ==
  LET row == FirstRow(channelDirectories, directory, "text") IN
  IF row = <<>> THEN "none"
  ELSE IF ChannelExists(row[1].channel_id) THEN "live" ELSE "stale"

\* createProjectChannels on the rows the command has left: a text and a
\* voice channel are created and a row is inserted for each
CreateProjectChannels(rows, directory) ==
  /\ guildChannels' = guildChannels \cup
       { [id |-> nextChannelId + 1, directory |-> directory, type |-> "text"],
         [id |-> nextChannelId + 2, directory |-> directory, type |-> "voice"] }
  /\ channelDirectories' = rows \o
       << [channel_id |-> nextChannelId + 1, directory |-> directory, channel_type |-> "text"],
          [channel_id |-> nextChannelId + 2, directory |-> directory, channel_type |-> "voice"] >>
  /\ nextChannelId' = nextChannelId + 2

\* the rows after the check of the existing row: a stale row is deleted
RowsAfterCheck(directory) ==
  IF Found(directory) = "stale"
  THEN DeleteRow(channelDirectories,
                 FirstRow(channelDirectories, directory, "text")[1].channel_id)
  ELSE channelDirectories

\* /add-project: the reply 'A channel already exists' is not followed by a
\* return, so the handler goes on to createProjectChannels in every case
AddProject(directory) ==
  /\ nextChannelId + 2 <= MaxChannelIds
  /\ lastCommand' = [name |-> "add-project", directory |-> directory,
                     found |-> Found(directory)]
  /\ CreateProjectChannels(RowsAfterCheck(directory), directory)

\* /add-existing-project: whenever a text row is found the handler returns
\* after the check, also when it has deleted the stale row
AddExistingProject(directory) ==
  /\ nextChannelId + 2 <= MaxChannelIds
  /\ lastCommand' = [name |-> "add-existing-project", directory |-> directory,
                     found |-> Found(directory)]
  /\ IF Found(directory) = "none"
     THEN CreateProjectChannels(channelDirectories, directory)
     ELSE /\ channelDirectories' = RowsAfterCheck(directory)
          /\ UNCHANGED <<guildChannels, nextChannelId>>

\* a channel is deleted in Discord: guild.channels.fetch no longer finds it
ChannelDeleted(id) ==
  /\ ChannelExists(id)
  /\ guildChannels' = {c \in guildChannels : c.id # id}
  /\ UNCHANGED <<channelDirectories, nextChannelId, lastCommand>>

outsideChan == <<bridgeVars, cmdVars, srvVars, shutVars, lockVars, authVars, mdVars,
                resumeVars, voiceInVars, voiceOutVars, lastVars>>

NextChannels ==
  \/ \E d \in Directories : AddProject(d) /\ UNCHANGED outsideChan
  \/ \E d \in Directories : AddExistingProject(d) /\ UNCHANGED outsideChan
  \/ \E id \in ChannelIds : ChannelDeleted(id) /\ UNCHANGED outsideChan

SpecChannels == Init /\ [][NextChannels]_vars

\* ---- the /resume command ----

\* messages a session holds
MaxMessages == 3

\* messages one sendThreadMessage call is split into
MaxSplit == 2

\* assistant parts /resume renders
ResumeLimit == 30

\* n parts for which formatPart returns a text that is not blank
TextParts(n) == [i \in 1..n |-> "text"]

\* the messages of a session: role and parts; formatPart returns '' for a
\* part "empty" (step-start, step-finish, pending tool, patch)
MessageShapes ==
  { [role |-> "user", parts |-> <<"text">>],
    [role |-> "assistant", parts |-> <<"text">>],
    [role |-> "assistant", parts |-> <<"empty", "text", "empty">>],
    [role |-> "assistant", parts |-> <<"empty">> \o TextParts(15)] }

\* the parts of the messages in order, each with its id and its role
RECURSIVE PartsOf(_, _)
PartsOf(messages, firstId) ==
  IF messages = <<>> THEN <<>>
  ELSE LET m == Head(messages) IN
       [i \in 1..Len(m.parts) |->
          [id |-> firstId + i - 1, role |-> m.role, content |-> m.parts[i]]]
       \o PartsOf(Tail(messages), firstId + Len(m.parts))

IsRendered(part) == part.role = "assistant" /\ part.content # "empty"

\* allAssistantParts: the assistant parts whose text is not blank
AllAssistantParts(messages) == SelectSeq(PartsOf(messages, 1), IsRendered)

PartsToRenderFirst(all) ==
  IF Len(all) <= ResumeLimit THEN all ELSE SubSeq(all, 1, ResumeLimit)

\* allAssistantParts.slice(-30)
PartsToRender(all) ==
  IF Len(all) <= ResumeLimit THEN all
  ELSE SubSeq(all, Len(all) - ResumeLimit + 1, Len(all))

IdsOf(parts) == [i \in 1..Len(parts) |-> parts[i].id]

\* a sendThreadMessage call: the text sent, the messages it is split into
\* and the id of the first of them, which the call returns
ThreadPost(kind, parts, count, id, split) ==
  [kind |-> kind, parts |-> parts, count |-> count, id |-> id, split |-> split]

\* the Agent's session gets a message
SessionMessage(shape) ==
  /\ resumeReply = "none"
  /\ Len(sessionMessages) < MaxMessages
  /\ sessionMessages' = Append(sessionMessages, shape)
  /\ UNCHANGED <<resumeReply, threadPosts, resumePartMessages>>

\* /resume in a project channel: found tells whether session.get returns the
\* session, split the number of messages the combined text needs
Resume(found, split) ==
  /\ resumeReply = "none"
  /\ IF ~found
     THEN /\ resumeReply' = "not-found"
          /\ UNCHANGED <<sessionMessages, threadPosts, resumePartMessages>>
     ELSE LET all == AllAssistantParts(sessionMessages)
              partsToRender == PartsToRender(all)
              skippedCount == Len(all) - Len(partsToRender)
              header == <<ThreadPost("header", <<>>, Len(sessionMessages), 1, 1)>>
              skipped == IF skippedCount > 0
                         THEN <<ThreadPost("skipped", <<>>, skippedCount, 2, 1)>>
                         ELSE <<>>
              combinedId == Len(header) + Len(skipped) + 1
              combined == IF Len(partsToRender) > 0
                          THEN <<ThreadPost("combined", IdsOf(partsToRender),
                                            Len(partsToRender), combinedId, split)>>
                          ELSE <<>>
              doneId == IF combined = <<>> THEN combinedId ELSE combinedId + split
          IN /\ resumeReply' = "resumed"
             /\ threadPosts' = header \o skipped \o combined \o
                  <<ThreadPost("done", <<>>, Len(sessionMessages), doneId, 1)>>
             /\ resumePartMessages' =
                  {<<partsToRender[i].id, combinedId>> : i \in 1..Len(partsToRender)}
             /\ UNCHANGED sessionMessages

outsideResume == <<bridgeVars, cmdVars, srvVars, shutVars, lockVars, authVars, mdVars,
                  chanVars, voiceInVars, voiceOutVars, lastVars>>

NextResume ==
  \/ \E shape \in MessageShapes : SessionMessage(shape) /\ UNCHANGED outsideResume
  \/ \E found \in BOOLEAN, split \in 1..MaxSplit :
       Resume(found, split) /\ UNCHANGED outsideResume

SpecResume == Init /\ [][NextResume]_vars

\* ---- the voice input (receiver.speaking 'start' and its pipeline) ----

\* speaking sessions started
MaxSpeaking == 3

\* frames a pipeline delivers
MaxFrames == 2

DataNoCheck(session) ==
  /\ session \in 1..Len(pipelines)
  /\ pipelines[session].state = "open"
  /\ pipelines[session].frames < MaxFrames
  /\ pipelines' = [pipelines EXCEPT ![session].frames = @ + 1]
  /\ realtimeInput' = Append(realtimeInput, [kind |-> "audio", session |-> session])
  /\ UNCHANGED speakingSessionCount

\* receiver.speaking 'start': the counter is incremented, the handler keeps
\* its value as currentSessionCount and builds the pipeline of the user
SpeakingStart ==
  /\ speakingSessionCount < MaxSpeaking
  /\ speakingSessionCount' = speakingSessionCount + 1
  /\ pipelines' = Append(pipelines, [state |-> "open", frames |-> 0])
  /\ UNCHANGED realtimeInput

\* pipeline 'data' of the session with currentSessionCount = session;
\* voiceData.genAiWorker is set before the listener is registered and is
\* never cleared
Data(session) ==
  /\ session \in 1..Len(pipelines)
  /\ pipelines[session].state = "open"
  /\ pipelines[session].frames < MaxFrames
  /\ pipelines' = [pipelines EXCEPT ![session].frames = @ + 1]
  /\ realtimeInput' =
       IF session # speakingSessionCount THEN realtimeInput
       ELSE Append(realtimeInput, [kind |-> "audio", session |-> session])
  /\ UNCHANGED speakingSessionCount

\* pipeline 'end' of the session (500 ms of silence)
End(session) ==
  /\ session \in 1..Len(pipelines)
  /\ pipelines[session].state = "open"
  /\ pipelines' = [pipelines EXCEPT ![session].state = "ended"]
  /\ realtimeInput' =
       IF session = speakingSessionCount
       THEN Append(realtimeInput, [kind |-> "audioStreamEnd", session |-> session])
       ELSE realtimeInput
  /\ UNCHANGED speakingSessionCount

outsideVoiceIn == <<bridgeVars, cmdVars, srvVars, shutVars, lockVars, authVars, mdVars,
                   chanVars, resumeVars, voiceOutVars, lastVars>>

NextVoiceIn ==
  \/ SpeakingStart /\ UNCHANGED outsideVoiceIn
  \/ \E session \in 1..MaxSpeaking : Data(session) /\ UNCHANGED outsideVoiceIn
  \/ \E session \in 1..MaxSpeaking : End(session) /\ UNCHANGED outsideVoiceIn

SpecVoiceIn == Init /\ [][NextVoiceIn]_vars

\* ---- the voice output (worker packet sender and setSpeaking) ----

\* audio chunks the model sends
MaxAudioChunks == 3

\* a message of the worker to the main thread
WorkerMessage(type, t) == [type |-> type, turn |-> t]

\* handleModelTurn, a part with audio: the first audio of a turn posts
\* assistantStartSpeaking; the chunk is resampled and encoded, and the
\* encoder's packet is pushed on the queue
ModelAudio ==
  /\ audioChunks < MaxAudioChunks
  /\ audioChunks' = audioChunks + 1
  /\ LET t == IF isAssistantSpeaking THEN turn ELSE turn + 1 IN
       /\ turn' = t
       /\ opusPacketQueue' = Append(opusPacketQueue, t)
       /\ workerOut' = IF isAssistantSpeaking THEN workerOut
                       ELSE Append(workerOut, WorkerMessage("assistantStartSpeaking", t))
  /\ isAssistantSpeaking' = TRUE
  /\ turnEnd' = "none"
  /\ UNCHANGED <<workerIn, speaking, played>>

\* handleModelTurn, serverContent.turnComplete
TurnComplete ==
  /\ isAssistantSpeaking
  /\ isAssistantSpeaking' = FALSE
  /\ turnEnd' = "complete"
  /\ workerOut' = Append(workerOut, WorkerMessage("assistantStopSpeaking", turn))
  /\ UNCHANGED <<turn, audioChunks, opusPacketQueue, workerIn, speaking, played>>

\* handleModelTurn, serverContent.interrupted
Interrupted ==
  /\ isAssistantSpeaking
  /\ isAssistantSpeaking' = FALSE
  /\ turnEnd' = "interrupted"
  /\ workerOut' = Append(workerOut, WorkerMessage("assistantInterruptSpeaking", turn))
  /\ UNCHANGED <<turn, audioChunks, opusPacketQueue, workerIn, speaking, played>>

\* a tick of the 20 ms interval with a packet in the queue
PacketTick ==
  /\ opusPacketQueue # <<>>
  /\ opusPacketQueue' = Tail(opusPacketQueue)
  /\ workerOut' = Append(workerOut,
                         WorkerMessage("assistantOpusPacket", Head(opusPacketQueue)))
  /\ UNCHANGED <<isAssistantSpeaking, turn, turnEnd, audioChunks, workerIn, speaking,
                 played>>

\* the main thread handles the next message of the worker, with the voice
\* connection ready: onAssistantOpusPacket, onAssistantStartSpeaking,
\* onAssistantStopSpeaking, onAssistantInterruptSpeaking
OnWorkerMessage ==
  /\ workerOut # <<>>
  /\ workerOut' = Tail(workerOut)
  /\ LET message == Head(workerOut) IN
       /\ speaking' = CASE message.type = "assistantOpusPacket" -> TRUE
                        [] message.type = "assistantStartSpeaking" -> TRUE
                        [] OTHER -> FALSE
       /\ played' = IF message.type = "assistantOpusPacket"
                    THEN Append(played, message.turn) ELSE played
       /\ workerIn' = IF message.type = "assistantInterruptSpeaking"
                      THEN workerIn + 1 ELSE workerIn
  /\ UNCHANGED <<isAssistantSpeaking, turn, turnEnd, audioChunks, opusPacketQueue>>

\* the worker handles 'interrupt': the packet queue is cleared
WorkerInterrupt ==
  /\ workerIn > 0
  /\ workerIn' = workerIn - 1
  /\ opusPacketQueue' = <<>>
  /\ UNCHANGED <<isAssistantSpeaking, turn, turnEnd, audioChunks, workerOut, speaking,
                 played>>

outsideVoiceOut == <<bridgeVars, cmdVars, srvVars, shutVars, lockVars, authVars, mdVars,
                    chanVars, resumeVars, voiceInVars, lastVars>>

NextVoiceOut ==
  \/ ModelAudio /\ UNCHANGED outsideVoiceOut
  \/ TurnComplete /\ UNCHANGED outsideVoiceOut
  \/ Interrupted /\ UNCHANGED outsideVoiceOut
  \/ PacketTick /\ UNCHANGED outsideVoiceOut
  \/ OnWorkerMessage /\ UNCHANGED outsideVoiceOut
  \/ WorkerInterrupt /\ UNCHANGED outsideVoiceOut

SpecVoiceOut == Init /\ [][NextVoiceOut]_vars

\* ---- the voice worker of a guild (join, cleanupVoiceConnection) ----

Connections == 1..MaxConnections

\* no entry for the guild in voiceConnections
NoEntry == 0

\* what a cleanup changes: the connections, the workers, the entry of the
\* guild and the cleanups awaiting a stop
CleanupState ==
  [conn |-> connStatus, work |-> workerStatus, entry |-> voiceEntry,
   awaiting |-> awaitingStop]

RECURSIVE CleanupStart(_, _)
RECURSIVE CleanupFinish(_, _)

\* cleanupVoiceConnection up to its first await: no entry, return; the
\* entry has a worker, stop() is called and awaited; else the rest follows
CleanupStart(st, e) ==
  IF e = NoEntry THEN st
  ELSE IF entryWorker[e]
       THEN [st EXCEPT !.work[e] = IF @ = "running" THEN "stopping" ELSE @,
                       !.awaiting[e] = @ + 1]
       ELSE CleanupFinish(st, e)

\* cleanupVoiceConnection after the worker: the connection of the entry is
\* destroyed unless it is already (its Destroyed handler, if registered,
\* starts a cleanup of the guild at once), then the guild's entry is deleted
CleanupFinish(st, e) ==
  LET gone == [st EXCEPT !.conn[e] = "destroyed"]
      after == IF st.conn[e] = "destroyed" THEN st
               ELSE IF listening[e] THEN CleanupStart(gone, gone.entry)
               ELSE gone
  IN [after EXCEPT !.entry = NoEntry]

\* the variables take the values of the cleanup state
Becomes(st) ==
  /\ connStatus' = st.conn
  /\ workerStatus' = st.work
  /\ voiceEntry' = st.entry
  /\ awaitingStop' = st.awaiting

\* VoiceStateUpdate, an admin joins a voice channel and the guild has no
\* connection that is not destroyed: joinVoiceChannel, the entry is stored
AdminJoins(c) ==
  /\ connStatus[c] = "none"
  /\ \A x \in Connections : x < c => connStatus[x] # "none"
  /\ IF voiceEntry = NoEntry THEN TRUE ELSE connStatus[voiceEntry] = "destroyed"
  /\ connStatus' = [connStatus EXCEPT ![c] = "connecting"]
  /\ voiceEntry' = c
  /\ joinPc' = [joinPc EXCEPT ![c] = "entering"]
  /\ UNCHANGED <<entryWorker, workerStatus, listening, awaitingStop, workerFailed, errorSent>>

\* entersState(connection, Ready) resolves; setupVoiceHandling finds the
\* entry of the guild and creates the worker, whose ready it awaits
EntersReady(c) ==
  /\ joinPc[c] = "entering"
  /\ connStatus[c] = "connecting"
  /\ connStatus' = [connStatus EXCEPT ![c] = "ready"]
  /\ workerStatus' = [workerStatus EXCEPT ![c] = "running"]
  /\ joinPc' = [joinPc EXCEPT ![c] = "creating"]
  /\ UNCHANGED <<voiceEntry, entryWorker, listening, awaitingStop, workerFailed, errorSent>>

\* entersState rejects, the connection was destroyed: the catch runs
\* cleanupVoiceConnection for the guild
EntersFails(c) ==
  /\ joinPc[c] = "entering"
  /\ connStatus[c] = "destroyed"
  /\ joinPc' = [joinPc EXCEPT ![c] = "done"]
  /\ Becomes(CleanupStart(CleanupState, voiceEntry))
  /\ UNCHANGED <<entryWorker, listening, workerFailed, errorSent>>

\* createGenAIWorker resolves: the worker is stored in the entry that
\* setupVoiceHandling read, then the handlers of the connection are registered
WorkerReady(c) ==
  /\ joinPc[c] = "creating"
  /\ entryWorker' = [entryWorker EXCEPT ![c] = TRUE]
  /\ listening' = [listening EXCEPT ![c] = TRUE]
  /\ joinPc' = [joinPc EXCEPT ![c] = "done"]
  /\ UNCHANGED <<voiceEntry, connStatus, workerStatus, awaitingStop, workerFailed, errorSent>>

\* VoiceStateUpdate, the last admin leaves the channel of the guild's entry
AdminLeaves ==
  /\ voiceEntry # NoEntry
  /\ awaitingStop[voiceEntry] < MaxCleanups
  /\ Becomes(CleanupStart(CleanupState, voiceEntry))
  /\ UNCHANGED <<entryWorker, listening, joinPc, workerFailed, errorSent>>

\* the worker that was asked to stop exits
WorkerExits(c) ==
  /\ workerStatus[c] = "stopping"
  /\ workerStatus' = [workerStatus EXCEPT ![c] = "stopped"]
  /\ UNCHANGED <<voiceEntry, connStatus, entryWorker, listening, joinPc, awaitingStop, workerFailed, errorSent>>

\* stop() of the entry's worker resolves for a cleanup that awaits it
StopResolves(c) ==
  /\ awaitingStop[c] > 0
  /\ workerStatus[c] = "stopped"
  /\ Becomes(CleanupFinish([CleanupState EXCEPT !.awaiting[c] = @ - 1], c))
  /\ UNCHANGED <<entryWorker, listening, joinPc, workerFailed, errorSent>>

\* VoiceConnectionStatus.Disconnected and no reconnect within 5 s:
\* connection.destroy(), then the guild's entry is deleted
Disconnected(c) ==
  /\ listening[c]
  /\ connStatus[c] = "ready"
  /\ Becomes(CleanupFinish(CleanupState, c))
  /\ UNCHANGED <<entryWorker, listening, joinPc, workerFailed, errorSent>>

\* the worker posts an 'error' message and the wrapper calls onError: the
\* text channel of the voice channel's directory, if the database has one,
\* is sent the error; after an uncaught exception the worker has exited
WorkerError(c, textChannelRow, crashed) ==
  /\ workerStatus[c] = "running"
  /\ c \notin workerFailed
  /\ workerFailed' = workerFailed \cup {c}
  /\ errorSent' = IF textChannelRow THEN errorSent \cup {c} ELSE errorSent
  /\ workerStatus' = [workerStatus EXCEPT ![c] = IF crashed THEN "stopped" ELSE @]
  /\ UNCHANGED <<voiceEntry, connStatus, entryWorker, listening, joinPc, awaitingStop>>

outsideWorker == <<oldVars, framerVars, newVars>>

NextWorker ==
  \/ \E c \in Connections : AdminJoins(c) /\ UNCHANGED outsideWorker
  \/ \E c \in Connections : EntersReady(c) /\ UNCHANGED outsideWorker
  \/ \E c \in Connections : EntersFails(c) /\ UNCHANGED outsideWorker
  \/ \E c \in Connections : WorkerReady(c) /\ UNCHANGED outsideWorker
  \/ AdminLeaves /\ UNCHANGED outsideWorker
  \/ \E c \in Connections : WorkerExits(c) /\ UNCHANGED outsideWorker
  \/ \E c \in Connections : StopResolves(c) /\ UNCHANGED outsideWorker
  \/ \E c \in Connections : Disconnected(c) /\ UNCHANGED outsideWorker
  \/ \E c \in Connections, textChannelRow \in BOOLEAN, crashed \in BOOLEAN :
       WorkerError(c, textChannelRow, crashed) /\ UNCHANGED outsideWorker

SpecWorker == Init /\ [][NextWorker]_vars

\* ---- the framer of the voice input (frameMono16khz) ----

\* FRAME_BYTES = 100 ms * 16000 Hz * 1 channel * 2 bytes per sample / 1000
FRAME_BYTES == 3200

\* bytes of a sample of 16-bit PCM
BytesPerSample == 2

\* lengths of the chunks written, in bytes
ChunkSizes == {1, 1600, 3199, 3200, 3201, 6400, 7000}

\* a Buffer, as the bytes of the input it holds
Buffer(from, len) == [from |-> from, len |-> len]

\* buf.subarray(start, end)
Subarray(buf, start, end) == Buffer(buf.from + start, end - start)

\* the frames pushed by the while loop and the offset it ends with
RECURSIVE PushFrames(_, _, _)
PushFrames(buf, off, pushed) ==
  IF buf.len - off >= FRAME_BYTES
  THEN PushFrames(buf, off + FRAME_BYTES,
                  Append(pushed, Subarray(buf, off, off + FRAME_BYTES)))
  ELSE [offset |-> off, frames |-> pushed]

FlushPushesPartial ==
  /\ ~flushed
  /\ written > 0
  /\ frames' = IF stash.len - offset > 0
               THEN Append(frames, Subarray(stash, offset, stash.len))
               ELSE frames
  /\ stash' = Buffer(0, 0)
  /\ offset' = 0
  /\ flushed' = TRUE
  /\ UNCHANGED <<written, chunksWritten>>

\* transform(chunk): the consumed prefix is dropped, the chunk appended, the
\* whole frames pushed, and a stash consumed exactly is reset
Transform(size) ==
  /\ ~flushed
  /\ chunksWritten < MaxChunks
  /\ chunksWritten' = chunksWritten + 1
  /\ LET normal == IF offset > 0 THEN Subarray(stash, offset, stash.len) ELSE stash
         chunk == Buffer(written, size)
         joined == IF normal.len > 0 THEN Buffer(normal.from, normal.len + size)
                   ELSE chunk
         loop == PushFrames(joined, 0, frames)
     IN /\ frames' = loop.frames
        /\ IF loop.offset = joined.len
           THEN stash' = Buffer(0, 0) /\ offset' = 0
           ELSE stash' = joined /\ offset' = loop.offset
  /\ written' = written + size
  /\ UNCHANGED flushed

\* flush: the stash is dropped, nothing is pushed
Flush ==
  /\ ~flushed
  /\ written > 0
  /\ stash' = Buffer(0, 0)
  /\ offset' = 0
  /\ flushed' = TRUE
  /\ UNCHANGED <<frames, written, chunksWritten>>

outsideFramer == <<oldVars, workerVars, newVars>>

NextFramer ==
  \/ \E size \in ChunkSizes : Transform(size) /\ UNCHANGED outsideFramer
  \/ Flush /\ UNCHANGED outsideFramer

SpecFramer == Init /\ [][NextFramer]_vars

\* ---- the typing indicator of a submission (startTyping, stopTyping) ----

\* the reasons a submission is aborted with from outside: a newer request
\* on the session, the user's abort
OutsideReasons == {"new request", "user"}

StartTypingAlways ==
  /\ typingInterval' = TRUE
  /\ stopTyping' = TRUE

\* stopTyping = startTyping(): nothing is started once the controller is
\* aborted; else the interval is (re)set and cleared again at the abort
StartTyping ==
  /\ typingInterval' = IF typingSignal # "none" THEN typingInterval ELSE TRUE
  /\ stopTyping' = TRUE

\* abortController.abort(r): the first abort sets the reason and runs the
\* listeners, which clear the interval
AbortTyping(r) ==
  /\ typingSignal' = IF typingSignal = "none" THEN r ELSE typingSignal
  /\ typingInterval' = IF typingSignal = "none" THEN FALSE ELSE typingInterval

\* handleOpencodeSession starts eventHandler; aborted already, it exits;
\* else typing starts and the prompt is sent
SendPrompt ==
  /\ promptPc = "start"
  /\ handlerPc' = "loop"
  /\ IF typingSignal # "none"
       THEN promptPc' = "returned" /\ UNCHANGED <<typingInterval, stopTyping>>
       ELSE promptPc' = "pending" /\ StartTyping
  /\ UNCHANGED <<typingSignal, restartTimers, typingSent>>

\* eventHandler receives a step-start part
StepStart ==
  /\ handlerPc = "loop"
  /\ StartTyping
  /\ UNCHANGED <<typingSignal, restartTimers, handlerPc, promptPc, typingSent>>

\* eventHandler receives a step-finish part: the parts are sent and a
\* restart of typing is scheduled 300 ms later
StepFinish ==
  /\ handlerPc = "loop"
  /\ restartTimers < MaxTimers
  /\ restartTimers' = restartTimers + 1
  /\ UNCHANGED <<typingSignal, typingInterval, stopTyping, handlerPc, promptPc,
                 typingSent>>

\* a 300 ms timer fires
RestartTimer ==
  /\ restartTimers > 0
  /\ restartTimers' = restartTimers - 1
  /\ IF typingSignal # "none" THEN UNCHANGED <<typingInterval, stopTyping>>
     ELSE StartTyping
  /\ UNCHANGED <<typingSignal, handlerPc, promptPc, typingSent>>

\* the typing interval fires: thread.sendTyping()
TypingTick ==
  /\ typingInterval
  /\ typingSent < MaxTypings
  /\ typingSent' = typingSent + 1
  /\ UNCHANGED <<typingSignal, typingInterval, stopTyping, restartTimers, handlerPc,
                 promptPc>>

\* eventHandler leaves its loop (the stream is aborted or ends, or a
\* session.error breaks it): the finally block calls stopTyping
HandlerEnds ==
  /\ handlerPc = "loop"
  /\ handlerPc' = "ended"
  /\ typingInterval' = IF stopTyping THEN FALSE ELSE typingInterval
  /\ stopTyping' = FALSE
  /\ UNCHANGED <<typingSignal, restartTimers, promptPc, typingSent>>

\* the prompt call returns: abort('finished'), or it throws and the error
\* is no abort error: abort('error'); after an abort nothing is changed
PromptReturns(ok) ==
  /\ promptPc = "pending"
  /\ promptPc' = "returned"
  /\ AbortTyping(IF ok THEN "finished" ELSE "error")
  /\ UNCHANGED <<stopTyping, restartTimers, handlerPc, typingSent>>

\* the controller is aborted from outside the submission
OutsideAbort(r) ==
  /\ promptPc = "pending"
  /\ typingSignal = "none"
  /\ AbortTyping(r)
  /\ UNCHANGED <<stopTyping, restartTimers, handlerPc, promptPc, typingSent>>

outsideTyping == <<oldVars, workerVars, framerVars>>

NextTyping ==
  \/ SendPrompt /\ UNCHANGED outsideTyping
  \/ StepStart /\ UNCHANGED outsideTyping
  \/ StepFinish /\ UNCHANGED outsideTyping
  \/ RestartTimer /\ UNCHANGED outsideTyping
  \/ TypingTick /\ UNCHANGED outsideTyping
  \/ HandlerEnds /\ UNCHANGED outsideTyping
  \/ \E ok \in BOOLEAN : PromptReturns(ok) /\ UNCHANGED outsideTyping
  \/ \E r \in OutsideReasons : OutsideAbort(r) /\ UNCHANGED outsideTyping

SpecTyping == Init /\ [][NextTyping]_vars

\* ---- properties ----

\* the steps in which submission m sends a message into the thread
PostsInThread(m) ==
  \/ VoiceAttachment(m)
  \/ SendPartDone(m)
  \/ SessionErrorHandled(m)
  \/ PermissionPosted(m)
  \/ FooterPosted(m)
  \/ ReactErr(m)

\* eventHandler of submission m is running (it has not reached the footer)
Consuming(m) == cons[m] \in {"loop", "send", "cleanup", "errPost", "permPost"}

\* eventHandler of submission m terminates in this step
Terminates(m) == Consuming(m) /\ cons'[m] \in {"footer", "done"}

\* every part with content that eventHandler of m holds has a post and a row
\* after the step
AllRecorded(m) ==
  \A i \in DOMAIN currentParts[m] :
    Renders(currentParts[m][i]) =>
      /\ currentParts[m][i].id \in partMessages'
      /\ partPosts'[currentParts[m][i].id] >= 1

\* C1: for every part id, at most one Discord post of that part is made.
C1_AtMostOnePostPerPart == \A p \in PartIds : partPosts[p] <= 1

\* C2: a part is posted only if no part_messages row exists for its id, and
\* after a post of a part the row for it is written.
C2_PostIffNoRow ==
  [][\A m \in Msgs :
       SendPartDone(m) =>
         /\ Head(todo[m]) \notin partMessages
         /\ Head(todo[m]) \in partMessages']_vars

\* C3: whenever a submission posts into the thread, the thread_sessions row
\* of the thread exists, and it names the submission's session once the
\* submission has one.
C3_RowBeforePost ==
  [][\A m \in Msgs :
       PostsInThread(m) =>
         /\ threadRow # NoSession
         /\ sess[m] # NoSession => threadRow = sess[m]]_vars

\* C4: a submission that finds a controller stored for its session aborts it
\* with 'new request', stores its own controller and waits; if its own
\* controller is aborted when the wait ends it returns, and a submission that
\* has returned never subscribes, starts eventHandler or sends a prompt.
C4_SupersedeAndDebounce ==
  [][\A m \in Msgs :
       /\ (main[m] \in {"get", "create"} /\ main'[m] \in {"debounce", "subscribe"}) =>
            LET existing == abortControllers[sess'[m]] IN
            /\ abortControllers'[sess'[m]] = m
            /\ reason'[m] = "none"
            /\ main'[m] = "debounce" <=> existing # NoMsg
            /\ existing # NoMsg =>
                 reason'[existing] = IF reason[existing] = "none"
                                       THEN "new request" ELSE reason[existing]
       /\ (main[m] = "debounce" /\ Aborted(m)) =>
            main'[m] \in {"debounce", "done"} /\ cons'[m] = "none"
       /\ main[m] = "done" => main'[m] = "done"
       /\ (cons[m] = "none" /\ cons'[m] # "none") =>
            main[m] = "subscribe" /\ main'[m] = "prompt"]_vars

\* C4 witness: a submission waits after it aborted the existing controller
\* with 'new request', and its own controller was aborted during the wait.
C4_Witness ==
  \E m, x \in Msgs :
    /\ main[m] = "debounce" /\ Aborted(m)
    /\ x # m /\ sess[x] = sess[m] /\ reason[x] = "new request"

\* C5: a submission whose controller was aborted with 'new request' posts no
\* footer and sets no reaction from then on.
C5_SupersededIsSilent ==
  [][\A m \in Msgs :
       reason[m] = "new request" =>
         ~FooterPosted(m) /\ reactions'[m] = reactions[m]]_vars

\* C6: the footer is posted only for a submission whose controller was
\* aborted with reason 'finished'.
C6_FooterOnlyWhenFinished ==
  [][\A m \in Msgs : FooterPosted(m) => reason[m] = "finished"]_vars

\* C7: an event of another session changes nothing for the submission: no
\* post, no reaction, no change of the pending permission, and eventHandler
\* keeps waiting for events.
C7_OtherSessionEventsIgnored ==
  [][\A m \in Msgs, e \in Events :
       (e.session # sess[m] /\ Receive(m, e)) =>
         /\ cons'[m] = "loop"
         /\ UNCHANGED <<partPosts, reactions, pendingPermissions>>]_vars

\* C8: once session.error of the submission's own session is taken, the
\* error message is posted and the cross reaction set in the next step of
\* eventHandler, which leaves the loop for good: from the finally block
\* eventHandler never returns to the loop, so no later event is processed.
C8_SessionErrorStops ==
  [][\A m \in Msgs :
       /\ \A e \in ErrorEvents :
            (e.session = sess[m] /\ Receive(m, e)) => cons'[m] = "errPost"
       /\ (cons[m] = "errPost" /\ cons'[m] # "errPost") =>
            /\ SessionErrorHandled(m)
            /\ reactions'[m] = "err"
            /\ cons'[m] \in {"cleanup", "footer", "done"}
       /\ cons[m] \in {"cleanup", "footer", "done"} =>
            /\ cons'[m] \in {"cleanup", "footer", "done"}
            /\ \A e \in Events : ~Receive(m, e)]_vars

\* C8 witness: the session error of a running submission was handled (cross
\* reaction, controller never aborted) and eventHandler has ended.
C8_Witness ==
  \E m \in Msgs :
    reactions[m] = "err" /\ reason[m] = "none" /\ cons[m] = "done"

\* C9: when eventHandler of a submission whose controller is aborted
\* terminates, every part with content that it had received has been posted
\* and has its part_messages row.
C9_CleanupFlushes ==
  [][\A m \in Msgs : (Aborted(m) /\ Terminates(m)) => AllRecorded(m)]_vars

\* C9 witness: the finally block of an aborted submission is sending a part
\* that was received and not yet posted.
C9_Witness ==
  \E m \in Msgs :
    /\ cons[m] = "cleanup" /\ Aborted(m)
    /\ todo[m] # <<>> /\ Head(todo[m]) \notin partMessages

\* C10 as stated: once a submission is aborted with 'new request', the
\* part_messages table has no row for a part of its response.
C10_NoRowsOfSuperseded ==
  \A a \in Msgs :
    reason[a] = "new request" => \A p \in partMessages : p[1] # a

\* C10 amended: after a submission is aborted with 'new request' the rows
\* already written stay, and when its eventHandler terminates every part with
\* content it had received has a row.
C10_SupersededRowsKept ==
  [][\A a \in Msgs :
       reason[a] = "new request" =>
         /\ partMessages \subseteq partMessages'
         /\ Terminates(a) => AllRecorded(a)]_vars

\* C10 witness: a superseded submission has ended and the table holds a row
\* for a part of its response.
C10_Witness ==
  \E a \in Msgs :
    /\ reason[a] = "new request" /\ cons[a] = "done"
    /\ \E p \in partMessages : p[1] = a

\* the submissions whose controller was created for session s and is not
\* aborted
ActiveHandles(s) == {m \in Msgs : sess[m] = s /\ ~Aborted(m)}

\* C11: every session has at most one controller that is not aborted, and it
\* is the one stored in abortControllers.
C11_OneActiveHandle ==
  \A s \in Sessions :
    /\ Cardinality(ActiveHandles(s)) <= 1
    /\ \A m \in ActiveHandles(s) : abortControllers[s] = m

\* C11 witness: a session has had two controllers; the older is aborted and
\* the newer is active.
C11_Witness ==
  \E m, x \in Msgs :
    /\ x # m /\ sess[x] = sess[m] /\ sess[m] # NoSession
    /\ Aborted(x) /\ ~Aborted(m)

C13_RepliedClearsPending ==
  [][\A m \in Msgs, e \in CmdEvents :
       (e.type = "permission.replied" /\ e.session = sess[m] /\ Receive(m, e)) =>
         pendingPermissions' = NoPerm]_vars

\* C13 amended: permission.replied of the submission's session removes the
\* pending entry of the thread when the entry is for the replied permission,
\* and leaves an entry for another permission in place.
C13_RepliedClearsSamePermission ==
  [][\A m \in Msgs, e \in CmdEvents :
       (e.type = "permission.replied" /\ e.session = sess[m] /\ Receive(m, e)) =>
         pendingPermissions' =
           IF pendingPermissions = e.perm THEN NoPerm ELSE pendingPermissions]_vars

\* C13 witness: permission.replied was handled for one permission while the
\* pending entry of the thread is for another one.
C13_Witness ==
  /\ lastReplied # NoPerm
  /\ pendingPermissions # NoPerm
  /\ pendingPermissions # lastReplied

Running == {c \in Calls : proc[c] = "running"}

\* C15: at every instant at most one Agent server process of the directory
\* is running, overlapping calls and restarts included.
C15_OneServerPerDirectory == Cardinality(Running) <= 1

\* C16: after a non-clean exit the server is restarted exactly when the retry
\* counter is below 5; at the bound no call is started and the terminal error
\* is logged; a restart happens on no other step, and at most 5 restarts
\* happen between clean exits.
C16_RestartBound ==
  [][/\ \A c \in Calls :
          ProcExit(c, 1) =>
            IF serverRetryCount < 5
              THEN /\ calls'[FreeCall].origin = "respawn"
                   /\ calls'[FreeCall].pc = "port"
                   /\ serverRetryCount' = serverRetryCount + 1
              ELSE /\ calls' = calls
                   /\ terminalError'
                   /\ serverRetryCount' = serverRetryCount
     /\ \A n \in Calls :
          (calls[n].pc = "idle" /\ calls'[n].origin = "respawn") =>
            \E c \in Calls : ProcExit(c, 1) /\ serverRetryCount < 5
     /\ (\E c \in Calls : ProcExit(c, 0)) =>
          (serverRetryCount' = 0 /\ respawns' = 0)
     /\ respawns' <= 5]_vars

\* C16 witness: five restarts were made since the last clean exit, the server
\* exited again and the terminal error was logged.
C16_Witness ==
  /\ terminalError
  /\ respawns = 5
  /\ Cardinality({c \in Calls : calls[c].origin = "respawn"}) >= 5
\* the steps of a shutdown in the order required
ShutdownOrder == <<"shuttingDown", "voice", "servers", "db", "client", "exit">>

\* C17: the steps of the shutdown taken so far are an initial part of:
\* set shuttingDown, voice workers cleaned up, Agent servers terminated,
\* database closed, gateway client destroyed, exit.
C17_ShutdownOrder ==
  /\ Len(shutLog) <= Len(ShutdownOrder)
  /\ \A i \in 1..Len(shutLog) : shutLog[i] = ShutdownOrder[i]
\* the bridge processes that have passed startLockServer and not ended
Live == {i \in Insts : inst[i].pc \in {"run", "bot"}}

\* C18: at most one bridge process is running; a running process holds the
\* lock port from startLockServer to its end; a process whose probe finds
\* the port answering exits at that step, without starting the bot.
C18_SingleInstance ==
  [][/\ Cardinality(Live') <= 1
     /\ \A i \in Live' : lockPort' = i
     /\ \A i \in Insts :
          (CheckSingleInstance(i) /\ lockPort # NoInst) => inst'[i].pc = "exited"
     /\ \A i \in Insts :
          inst'[i].pc = "bot" => inst[i].pc \in {"run", "bot"}]_vars

\* C18 witness: a process was turned away by its probe while another one
\* runs the bot and holds the port.
C18_Witness ==
  \E i, k \in Insts :
    /\ inst[i].pc = "bot"
    /\ lockPort = i
    /\ inst[k].pc = "exited"
    /\ k > i

\* C19: a process that ends on a single-instance conflict (the probe is
\* answered, or the lock port is in use) exits with a code after which the
\* wrapper does not restart: 0, 130, 143 or 64.
C19_ConflictExitNoRestart ==
  [][\A i \in Insts :
       ((CheckSingleInstance(i) \/ StartLockServer(i)) /\ inst'[i].pc = "exited") =>
         inst'[i].code \in {0, 130, 143, 64}]_vars
\* C20: an event is processed only if its actor is no bot and is the owner,
\* has administrator or manage-server permission, or has a role named
\* remote-vibe in any letter case.
C20_OnlyAuthorizedActors ==
  processed =>
    /\ ~event.bot
    /\ \/ event.owner
       \/ event.admin
       \/ event.manage
       \/ event.roles \cap {"remote-vibe", "Remote-Vibe", "REMOTE-VIBE"} # {}

\* C21 as stated: once the thread's row is written, no step changes its
\* session id.
C21_BindingImmutable ==
  [][threadRow # NoSession => threadRow' = threadRow]_vars

\* C21 amended: a written row changes only when a submission that had read
\* the row stores the session it has obtained since: the session just created
\* after session.get for the row's session failed, or the session it read,
\* fetched again, when the row has been rewritten in between.
C21_RewrittenOnlyForLostSession ==
  [][(threadRow # NoSession /\ threadRow' # threadRow) =>
       \E m \in Msgs :
         /\ rowRead[m] # NoSession
         /\ \/ CreateReturns(m) /\ threadRow' = nextSession + 1
            \/ GetOk(m) /\ threadRow' = rowRead[m]]_vars

\* C21 witness: the row names a second session while a submission was bound
\* to the first one.
C21_Witness ==
  \E m, x \in Msgs :
    /\ sess[m] # NoSession
    /\ sess[x] # NoSession
    /\ sess[x] # sess[m]
    /\ threadRow = sess[x]

\* the number of fences in a string
RECURSIVE Fences(_)
Fences(str) ==
  IF str = <<>> THEN 0
  ELSE (IF Head(str) = "fence" THEN 1 ELSE 0) + Fences(Tail(str))

\* the chunks without the fences put in at the cuts, concatenated
Stripped ==
  Flatten([i \in 1..Len(chunks) |->
             ChunkText(SelectSeq(chunks[i], LAMBDA it : ~it.injected))])

\* C22: every chunk returned by the splitter is at most maxLength long.
C22_ChunkLength ==
  \A i \in 1..Len(chunks) : StrLen(ChunkText(chunks[i])) <= maxLength

\* C23: every chunk has as many opening as closing fences: fences alternate
\* between opening and closing, so their number in the chunk is even.
C23_ChunksBalanced ==
  \A i \in 1..Len(chunks) : Fences(ChunkText(chunks[i])) % 2 = 0

\* C24: the chunks, without the fences put in at the cuts, concatenate to
\* the text that was split.
C24_RoundTrip ==
  chunks # <<>> => Stripped = ContentOf(content)

\* C25: escaping an escaped text changes nothing.
C25_EscapeIdempotent ==
  escaped # <<>> => escaped[2] = escaped[1]

\* C26: /add-project for a directory whose text row refers to a channel that
\* still exists creates no channel
C26_NoChannelsWhenBound ==
  [][\A d \in Directories :
       (AddProject(d) /\ Found(d) = "live") => guildChannels' = guildChannels]_vars

\* C27: when the row found refers to a channel that no longer exists, the
\* command deletes the row and then creates the channels of the project
C27_StaleRowThenCreate ==
  [][\A d \in Directories :
       ((AddProject(d) \/ AddExistingProject(d)) /\ Found(d) = "stale") =>
         /\ \A i \in 1..Len(channelDirectories') :
              channelDirectories'[i].channel_id #
                FirstRow(channelDirectories, d, "text")[1].channel_id
         /\ \E c \in guildChannels' \ guildChannels : c.directory = d /\ c.type = "text"
         /\ \E c \in guildChannels' \ guildChannels : c.directory = d /\ c.type = "voice"]_vars

\* the ids of the non-blank assistant parts of the session, in order
RenderedIds == IdsOf(AllAssistantParts(sessionMessages))

\* the last min(n, 30) of them
LastRenderedIds ==
  LET n == Len(RenderedIds)
      k == IF n <= ResumeLimit THEN n ELSE ResumeLimit
  IN SubSeq(RenderedIds, n - k + 1, n)

PostsOfKind(kind) == SelectSeq(threadPosts, LAMBDA post : post.kind = kind)

C29_OnlyCurrentSessionForwarded ==
  [][realtimeInput' # realtimeInput =>
       /\ Len(realtimeInput') = Len(realtimeInput) + 1
       /\ realtimeInput'[Len(realtimeInput')].session = speakingSessionCount]_vars

\* an older session has delivered frames after a newer one started, and
\* none of them reached the model, while the newer session's frame did
C29_Witness ==
  /\ speakingSessionCount = 2
  /\ pipelines[1].frames = MaxFrames
  /\ \A i \in 1..Len(realtimeInput) : realtimeInput[i].session = 2
  /\ realtimeInput # <<>>

\* the playback of the last turn has finished after its natural end: the
\* turn is complete and none of its packets or messages is still under way
PlaybackFinished ==
  /\ turnEnd = "complete"
  /\ opusPacketQueue = <<>>
  /\ workerOut = <<>>
  /\ workerIn = 0

\* C30: setSpeaking(false) follows the last packet of a turn that ends
\* naturally, so the speaking state is false once its playback has finished
C30_SpeakingFalseAfterPlayback == PlaybackFinished => ~speaking

\* the main thread has handled the interrupt of the last turn: the turn was
\* interrupted and its assistantInterruptSpeaking is no longer under way
InterruptHandled ==
  /\ turnEnd = "interrupted"
  /\ \A i \in 1..Len(workerOut) :
       ~(workerOut[i].type = "assistantInterruptSpeaking" /\ workerOut[i].turn = turn)

\* C31: once the interrupt of a turn has been handled, no packet of that
\* turn is handed to the voice transport and the speaking state stays false
\* until the next turn starts
C31_NoPacketAfterInterrupt ==
  [][(InterruptHandled /\ turnEnd' = "interrupted") =>
       /\ played' # played => played'[Len(played')] # turn
       /\ ~speaking']_vars

\* the workers that were created and not asked to stop
LiveWorkers == {c \in Connections : workerStatus[c] = "running"}

\* C32: at every instant at most one voice worker exists for the guild
C32_OneWorkerPerGuild == Cardinality(LiveWorkers) <= 1

C34_FailureCleansUp ==
  \A c \in workerFailed : connStatus[c] = "destroyed" \/ awaitingStop[c] > 0

\* C35: the reaction of a triggering message matches the outcome of its
\* submission: a message that carries the cross for a reported error is
\* never switched to the check mark
C35_ErrorNeverBecomesOk ==
  [][\A m \in Msgs : reactions[m] = "err" => reactions'[m] # "ok"]_vars

\* C36: of two overlapping submissions on one session the one of the later
\* message proceeds: a submission is aborted as 'new request' only by the
\* submission of a later message, which then holds the session's controller
C36_OlderNeverAbortsNewer ==
  [][\A x \in Msgs :
       (reason[x] # "new request" /\ reason'[x] = "new request")
         => abortControllers'[sess[x]] > x]_vars

\* C37: once the submission has completed or been cancelled (its controller
\* is aborted) its typing interval is cleared and stays cleared, and no
\* sendTyping of the interval follows, whatever timers are still pending
C37_TypingStopped ==
  [][typingSignal' # "none" =>
       /\ ~typingInterval'
       /\ typingSignal # "none" => typingSent' = typingSent]_vars

\* the submission completed while typing had been sent and a restart of
\* typing was pending, and the timer has fired since
C37_Witness ==
  /\ typingSignal = "finished"
  /\ typingSent > 0
  /\ restartTimers = 0
  /\ handlerPc = "ended"
  /\ stopTyping

\* the permission has been answered: a resolution command has sent its
\* reply to the Agent, or the Agent's permission.replied was the last received
Answered(p) ==
  \/ lastReplied = p
  \/ \E name \in CmdNames : <<p, ScopeOf(name)>> \in agentReplies

\* C38: a permission request shown in the thread stays resolvable until it
\* is answered: the pending entry is replaced by the entry of another
\* permission only when its own permission has been answered
C38_PendingNotDiscarded ==
  [][(pendingPermissions # NoPerm /\ pendingPermissions' \notin {NoPerm, pendingPermissions})
       => Answered(pendingPermissions)]_vars

\* C39: after SIGUSR2 (no other signal is delivered) the cleanup completes
\* before the replacement is spawned and the process exits: no cleanup of a
\* voice connection is under way and handleShutdown has run to its end
C39_RestartAfterCleanup ==
  [][\A h \in SigRuns :
       (/\ ImportReturns(h)
        /\ \A k \in SigRuns : sigs[k].pc # "idle" => sigs[k].sig = "SIGUSR2")
         => /\ cleaning = {}
            /\ destroyed]_vars

\* C40: every Agent server process that was spawned and is still running
\* once its call is over is the process of the directory's entry, so that
\* the shutdown, which goes through the entries, terminates it
C40_RunningIsTracked ==
  \A c \in Calls :
    (proc[c] = "running" /\ calls[c].pc \in {"done", "failed"}) => opencodeServers = c

====
